---- MODULE Spec2Model ----
(***************************************************************************)
(* A model of the JHR hotel-KPI extraction engine                          *)
(* (src/src/fixed_yaml_generator.py, src/src/create_comprehensive_yaml.py, *)
(* src/src/get.py).                                                        *)
(*                                                                         *)
(* Conventions                                                             *)
(*   - A text (a sheet name, a label cell, a year cell) is a sequence of   *)
(*     tokens; decimal numbers are spelt digit by digit, so that the       *)
(*     substring tests of the code ("x in s") are real containment tests.  *)
(*     Tokens stand for the Japanese fragments the code searches for:      *)
(*       KYAKUSHITSU 客室   KADORITSU 稼働率   EN 円   HYAKUMAN 百万       *)
(*       URIAGE 売上   DAKA 高   GOKEI 合計   SHUKUHAKU 宿泊               *)
(*       BUKKENBANGO 物件番号   NEN 年   HEISEI 平成   BIKO 備考           *)
(*       HENDO 変動賃料等導入   HOTERU ホテル   CHUI 注意                  *)
(*   - A Python float is an integer number of thousandths (653 is 0.653,   *)
(*     65300 is 65.3).  Stored occupancy is in tenths of a percent         *)
(*     (round(x, 1)), stored ADR/RevPAR in yen and sales in million yen    *)
(*     (int(x)).  The cell values of the model are chosen away from        *)
(*     rounding ties, where binary floating point and decimal arithmetic   *)
(*     could differ.                                                       *)
(*   - Python's None is <<>>, a number v is <<v>>.                         *)
(***************************************************************************)
EXTENDS Integers, Sequences, FiniteSets, TLC

VARIABLES
    target_year,          \* the year an extractor is invoked for
    grid,                 \* rows of the DataFrame scanned so far (row_idx = Len(grid))
    monthly_data,         \* the extractor's monthly_data dict
    current_kpi_type,     \* per-property scan: the label in force
    current_hotel_count,  \* per-property scan: property-marker rows seen
    pc,                   \* position of the running operation
    called_before,        \* an extractor invocation has returned before the current one
    year,                 \* process_excel_file / generate_yaml: the year at hand
    file_state,           \* process_excel_file: what is on disk for the year
    sheet_names,          \* process_excel_file: excel_file.sheet_names
    df,                   \* process_excel_file: the grid read from the sheet
    main_sheet,           \* process_excel_file: the sheet selected
    result,               \* process_excel_file: the value returned
    all_data,             \* generate_yaml: year -> dataset
    successful_years,     \* generate_yaml: list of the years that succeeded
    yaml_data,            \* generate_yaml: the document built
    processed,            \* history: the years process_excel_file was called for, in order
    succeeded,            \* history: the years for which it returned a dataset
    annual_summary        \* calculate_annual_summary: the summary returned

scanVars == <<target_year, grid, monthly_data, current_kpi_type, current_hotel_count,
             called_before>>
procVars == <<file_state, sheet_names, df, main_sheet, result>>
asmVars == <<all_data, successful_years, yaml_data, processed, succeeded>>
annVars == <<annual_summary>>
vars == <<target_year, grid, monthly_data, current_kpi_type, current_hotel_count, pc,
          called_before,
          year, file_state, sheet_names, df, main_sheet, result,
          all_data, successful_years, yaml_data, processed, succeeded, annual_summary>>

-----------------------------------------------------------------------------
(* Bounds of the model *)

MaxRows == 3
MaxSheets == 2
MaxFilledMonths == 2

-----------------------------------------------------------------------------
(* Values *)

None == <<>>
Num(v) == <<v>>
IsNone(x) == x = <<>>
Val(x) == x[1]

NoKpi == "None"

NumMonths == 12
MonthKeys == <<"01", "02", "03", "04", "05", "06", "07", "08", "09", "10", "11", "12">>
MonthKeySet == {MonthKeys[i] : i \in 1..NumMonths}
MonthIdx(mk) == CHOOSE i \in 1..NumMonths : MonthKeys[i] = mk

RECURSIVE SumOver(_, _)
\* sum(...): the sum of f[i] over the finite set S
SumOver(f, S) ==
    IF S = {} THEN 0
    ELSE LET i == CHOOSE j \in S : TRUE IN f[i] + SumOver(f, S \ {i})

\* round(n / d, 0) to an integer, ties to even (Python 3 round); d > 0
RoundHalfEven(n, d) ==
    LET q == n \div d
        r == n % d
    IN  IF 2 * r < d THEN q
        ELSE IF 2 * r > d THEN q + 1
        ELSE IF q % 2 = 0 THEN q ELSE q + 1

\* int(n / d): truncation toward zero; d > 0
Trunc(n, d) == IF n >= 0 THEN n \div d ELSE -((-n) \div d)

\* round(x, 1) of a float x given in thousandths, as tenths
Round1(m) == RoundHalfEven(m, 100)

\* int(x) of a float x given in thousandths
PyInt(m) == Trunc(m, 1000)

-----------------------------------------------------------------------------
(* Texts *)

\* "pat in text"
Contains(pat, text) ==
    \E i \in 0..(Len(text) - Len(pat)) :
        \A j \in 1..Len(pat) : text[i + j] = pat[j]

DigitTok == <<"0", "1", "2", "3", "4", "5", "6", "7", "8", "9">>

RECURSIVE Digits(_)
\* str(n) for n >= 0
Digits(n) == IF n < 10 THEN <<DigitTok[n + 1]>>
             ELSE Digits(n \div 10) \o <<DigitTok[(n % 10) + 1]>>

\* f"{y}年"
YearLabel(y) == Digits(y) \o <<"NEN">>
\* f"平成{h}年"
HeiseiLabel(h) == <<"HEISEI">> \o Digits(h) \o <<"NEN">>

-----------------------------------------------------------------------------
(* Cells *)

NaN == [t |-> "nan"]
StrCell(s) == [t |-> "str", s |-> s]
IntCell(v) == [t |-> "int", v |-> v]
FloatCell(m) == [t |-> "float", m |-> m]
TextCell(x) == [t |-> "text", x |-> x]

\* pd.notna(value)
NotNa(c) == c.t # "nan"

\* str(value) in names.  str of a float always carries a "." (or is nan/inf), so it
\* is never one of "0", "-", ""; str of an int is "0" exactly for 0.
StrIn(c, names) ==
    CASE c.t = "str" -> c.s \in names
      [] c.t = "int" -> c.v = 0 /\ "0" \in names
      [] OTHER -> FALSE

\* float(value): <<thousandths>>, or <<>> for ValueError / TypeError
ToFloat(c) ==
    CASE c.t = "int" -> Num(c.v * 1000)
      [] c.t = "float" -> Num(c.m)
      [] c.t = "str" /\ c.s = "0" -> Num(0)
      [] c.t = "str" /\ c.s = "0.7" -> Num(700)
      [] OTHER -> None

\* str(row.iloc[k]) if pd.notna(row.iloc[k]) else ""
ColText(c) ==
    CASE c.t = "text" -> c.x
      [] c.t = "int" /\ c.v >= 0 -> Digits(c.v)
      [] OTHER -> <<>>

\* A row of the DataFrame: the label cell, the year cell, the cells after them.
Row(first, second, cells) == [first |-> first, second |-> second, cells |-> cells]

\* len(row)
RowLen(row) == 2 + Len(row.cells)

\* row.iloc[col_idx] for col_idx >= 2 (0-based)
RowCell(row, col_idx) == row.cells[col_idx - 1]

-----------------------------------------------------------------------------
(* Patterns the extractors search the label cell for *)

KyakushitsuKadoritsu == <<"KYAKUSHITSU", "KADORITSU">>   \* "客室稼働率"
Kadoritsu == <<"KADORITSU">>                              \* "稼働率"
Adr == <<"ADR">>
RevPar == <<"RevPAR">>
En == <<"EN">>                                            \* "円"
Uriagedaka == <<"URIAGE", "DAKA">>                        \* "売上高"
Hyakumanen == <<"HYAKUMAN", "EN">>                        \* "百万円"
Uriage == <<"URIAGE">>                                    \* "売上"
BukkenBango == <<"BUKKENBANGO">>                          \* "物件番号"
Gokei == <<"GOKEI">>                                      \* "合計"
Shukuhaku == <<"SHUKUHAKU">>                              \* "宿泊"
Room == <<"Room">>
Ryoin == <<"RYOIN">>                                      \* "料飲"
FAndB == <<"F&B">>
Sonota == <<"SONOTA">>                                    \* "その他"

MetricKeys == {"occupancy_pct", "adr_jpy", "revpar_jpy", "sales_total_mil_jpy"}
SevenKeys == MetricKeys \cup {"sales_lodging_mil_jpy", "sales_fnb_mil_jpy", "sales_other_mil_jpy"}
CountKeys == {"occupancy_count", "adr_count", "revpar_count", "sales_count"}

\* f"{current_kpi_type.split('_')[0]}_count"
CountKeyOf(kpi) ==
    CASE kpi = "occupancy_pct" -> "occupancy_count"
      [] kpi = "adr_jpy" -> "adr_count"
      [] kpi = "revpar_jpy" -> "revpar_count"
      [] OTHER -> "sales_count"

-----------------------------------------------------------------------------
(* extract_individual_hotels_aggregated: the per-property extractor *)

\* One month's accumulator as initialised: float sums 0.0 and counts 0
IndividualInitialMonth ==
    [k \in MetricKeys \cup CountKeys |-> IF k \in MetricKeys THEN Num(0) ELSE 0]

\* A scan state that keeps the label and the property count of the previous scan
IndividualInitialStale ==
    [md |-> [mk \in MonthKeySet |-> IndividualInitialMonth],
     kpi |-> current_kpi_type,
     hotels |-> current_hotel_count]

\* The local state at the head of the row loop
IndividualInitial ==
    [md |-> [mk \in MonthKeySet |-> IndividualInitialMonth],
     kpi |-> NoKpi,
     hotels |-> 0]

\* The if/elif chain that sets current_kpi_type; no branch taken keeps it
IndividualClassify(first_col, current) ==
    IF Contains(KyakushitsuKadoritsu, first_col) THEN "occupancy_pct"
    ELSE IF Contains(Adr, first_col) /\ Contains(En, first_col) THEN "adr_jpy"
    ELSE IF Contains(RevPar, first_col) /\ Contains(En, first_col) THEN "revpar_jpy"
    ELSE IF Contains(Uriagedaka, first_col) /\ Contains(Hyakumanen, first_col)
         THEN "sales_total_mil_jpy"
    ELSE current

\* A contribution that adds the occupancy fraction without converting it to percent
IndividualContributionNoPercent(kpi, value) ==
    IF NotNa(value) /\ ~StrIn(value, {"0", "-", ""})
    THEN LET f == ToFloat(value)
         IN  IF IsNone(f) THEN None
             ELSE IF kpi = "occupancy_pct" /\ 0 <= Val(f) /\ Val(f) <= 1000
                  THEN f
             ELSE IF kpi \in {"adr_jpy", "revpar_jpy"}
                     /\ 1000000 <= Val(f) /\ Val(f) <= 100000000
                  THEN f
             ELSE IF kpi = "sales_total_mil_jpy" /\ Val(f) > 0
                  THEN f
             ELSE None
    ELSE None

\* value accepted as a contribution under kpi: <<thousandths added to the sum>> or <<>>
IndividualContribution(kpi, value) ==
    IF NotNa(value) /\ ~StrIn(value, {"0", "-", ""})
    THEN LET f == ToFloat(value)
         IN  IF IsNone(f) THEN None
             ELSE IF kpi = "occupancy_pct" /\ 0 <= Val(f) /\ Val(f) <= 1000
                  THEN Num(Val(f) * 100)
             ELSE IF kpi \in {"adr_jpy", "revpar_jpy"}
                     /\ 1000000 <= Val(f) /\ Val(f) <= 100000000
                  THEN f
             ELSE IF kpi = "sales_total_mil_jpy" /\ Val(f) > 0
                  THEN f
             ELSE None
    ELSE None

\* A month loop that counts every cell it reads, accepted or not
IndividualMonthCountAll(rec, kpi, row, month_idx) ==
    LET col_idx == month_idx + 2
    IN  IF col_idx < RowLen(row)
        THEN LET c == IndividualContribution(kpi, RowCell(row, col_idx))
             IN  IF IsNone(c) THEN [rec EXCEPT ![CountKeyOf(kpi)] = @ + 1]
                 ELSE [rec EXCEPT ![kpi] = Num(Val(@) + Val(c)),
                                  ![CountKeyOf(kpi)] = @ + 1]
        ELSE rec

\* The body of the month loop for one month of one row
IndividualMonth(rec, kpi, row, month_idx) ==
    LET col_idx == month_idx + 2
    IN  IF col_idx < RowLen(row)
        THEN LET c == IndividualContribution(kpi, RowCell(row, col_idx))
             IN  IF IsNone(c) THEN rec
                 ELSE [rec EXCEPT ![kpi] = Num(Val(@) + Val(c)),
                                  ![CountKeyOf(kpi)] = @ + 1]
        ELSE rec

\* A row loop in which a property-marker row leaves the label in force
IndividualRowStepNoReset(st, row, y) ==
    LET first_col == ColText(row.first)
        second_col == ColText(row.second)
    IN  IF Contains(BukkenBango, first_col)
        THEN [st EXCEPT !.hotels = @ + 1]
        ELSE LET k == IndividualClassify(first_col, st.kpi)
             IN  IF k = NoKpi THEN [st EXCEPT !.kpi = k]
                 ELSE IF ~Contains(YearLabel(y), second_col) THEN [st EXCEPT !.kpi = k]
                 ELSE [st EXCEPT !.kpi = k,
                                 !.md = [mk \in MonthKeySet |->
                                            IndividualMonth(st.md[mk], k, row, MonthIdx(mk) - 1)]]

\* The body of the row loop
IndividualRowStep(st, row, y) ==
    LET first_col == ColText(row.first)
        second_col == ColText(row.second)
    IN  IF Contains(BukkenBango, first_col)
        THEN [st EXCEPT !.hotels = @ + 1, !.kpi = NoKpi]
        ELSE LET k == IndividualClassify(first_col, st.kpi)
             IN  IF k = NoKpi THEN [st EXCEPT !.kpi = k]
                 ELSE IF ~Contains(YearLabel(y), second_col) THEN [st EXCEPT !.kpi = k]
                 ELSE [st EXCEPT !.kpi = k,
                                 !.md = [mk \in MonthKeySet |->
                                            IndividualMonth(st.md[mk], k, row, MonthIdx(mk) - 1)]]

\* An averaging loop without the else branches: a metric nothing was added to
\* keeps its initial sum 0.0
IndividualFinishMonthNoElse(rec) ==
    [k \in MetricKeys |->
        CASE k = "occupancy_pct" ->
                IF rec["occupancy_count"] > 0
                THEN Num(RoundHalfEven(Val(rec[k]), rec["occupancy_count"] * 100))
                ELSE rec[k]
          [] k = "adr_jpy" ->
                IF rec["adr_count"] > 0
                THEN Num(Trunc(Val(rec[k]), rec["adr_count"] * 1000))
                ELSE rec[k]
          [] k = "revpar_jpy" ->
                IF rec["revpar_count"] > 0
                THEN Num(Trunc(Val(rec[k]), rec["revpar_count"] * 1000))
                ELSE rec[k]
          [] OTHER ->
                IF rec["sales_count"] > 0
                THEN Num(PyInt(Val(rec[k])))
                ELSE rec[k]]

\* An averaging loop that divides the sales sum by its count like the other metrics
IndividualFinishMonthSalesMean(rec) ==
    [k \in MetricKeys |->
        CASE k = "occupancy_pct" ->
                IF rec["occupancy_count"] > 0
                THEN Num(RoundHalfEven(Val(rec[k]), rec["occupancy_count"] * 100))
                ELSE None
          [] k = "adr_jpy" ->
                IF rec["adr_count"] > 0
                THEN Num(Trunc(Val(rec[k]), rec["adr_count"] * 1000))
                ELSE None
          [] k = "revpar_jpy" ->
                IF rec["revpar_count"] > 0
                THEN Num(Trunc(Val(rec[k]), rec["revpar_count"] * 1000))
                ELSE None
          [] OTHER ->
                IF rec["sales_count"] > 0
                THEN Num(Trunc(Val(rec[k]), rec["sales_count"] * 1000))
                ELSE None]

\* The averaging loop after the scan, for one month; the count keys are deleted
IndividualFinishMonth(rec) ==
    [k \in MetricKeys |->
        CASE k = "occupancy_pct" ->
                IF rec["occupancy_count"] > 0
                THEN Num(RoundHalfEven(Val(rec[k]), rec["occupancy_count"] * 100))
                ELSE None
          [] k = "adr_jpy" ->
                IF rec["adr_count"] > 0
                THEN Num(Trunc(Val(rec[k]), rec["adr_count"] * 1000))
                ELSE None
          [] k = "revpar_jpy" ->
                IF rec["revpar_count"] > 0
                THEN Num(Trunc(Val(rec[k]), rec["revpar_count"] * 1000))
                ELSE None
          [] OTHER ->
                IF rec["sales_count"] > 0
                THEN Num(PyInt(Val(rec[k])))
                ELSE None]

IndividualFinish(md) == [mk \in MonthKeySet |-> IndividualFinishMonth(md[mk])]

-----------------------------------------------------------------------------
(* extract_aggregated_data: the pre-aggregated extractor *)

\* One month as initialised by extract_aggregated_data and extract_legacy_format
SevenNone == [k \in SevenKeys |-> None]

AggregatedInitial == [mk \in MonthKeySet |-> SevenNone]

\* kpi_type of a row, "None" when no branch is taken
AggregatedClassify(first_col) ==
    IF Contains(KyakushitsuKadoritsu, first_col) THEN "occupancy_pct"
    ELSE IF Contains(Adr, first_col) /\ Contains(En, first_col) THEN "adr_jpy"
    ELSE IF Contains(RevPar, first_col) /\ Contains(En, first_col) THEN "revpar_jpy"
    ELSE IF Contains(Uriagedaka, first_col) /\ Contains(Hyakumanen, first_col)
         THEN "sales_total_mil_jpy"
    ELSE NoKpi

\* kpi_type.endswith("_mil_jpy")
EndsWithMilJpy(kpi) ==
    kpi \in {"sales_total_mil_jpy", "sales_lodging_mil_jpy", "sales_fnb_mil_jpy",
             "sales_other_mil_jpy"}

\* The value a cell stores under kpi: <<v>>, or <<>> when nothing is assigned
AggregatedStore(kpi, value) ==
    IF NotNa(value) /\ ~StrIn(value, {"0", "-", ""})
    THEN LET f == ToFloat(value)
         IN  IF IsNone(f) THEN None
             ELSE LET nv == IF kpi = "occupancy_pct" /\ Val(f) <= 1000
                            THEN Val(f) * 100 ELSE Val(f)
                  IN  IF kpi = "occupancy_pct" /\ 0 <= nv /\ nv <= 100000
                      THEN Num(Round1(nv))
                      ELSE IF kpi \in {"adr_jpy", "revpar_jpy"}
                              /\ 1000000 <= nv /\ nv <= 100000000
                      THEN Num(PyInt(nv))
                      ELSE IF EndsWithMilJpy(kpi) /\ nv > 0
                      THEN Num(PyInt(nv))
                      ELSE None
    ELSE None

AggregatedMonth(rec, kpi, row, month_idx) ==
    LET col_idx == month_idx + 2
    IN  IF col_idx < RowLen(row)
        THEN LET v == AggregatedStore(kpi, RowCell(row, col_idx))
             IN  IF IsNone(v) THEN rec ELSE [rec EXCEPT ![kpi] = v]
        ELSE rec

\* A row loop whose month loop ends at the first cell float() cannot convert
AggregatedRowStepAbort(md, row, y) ==
    LET kpi == AggregatedClassify(ColText(row.first))
        failing == {m \in 1..Len(row.cells) :
                       /\ NotNa(row.cells[m])
                       /\ ~StrIn(row.cells[m], {"0", "-", ""})
                       /\ IsNone(ToFloat(row.cells[m]))}
    IN  IF kpi = NoKpi THEN md
        ELSE IF ~Contains(YearLabel(y), ColText(row.second)) THEN md
        ELSE [mk \in MonthKeySet |->
                IF \E m \in failing : m <= MonthIdx(mk) THEN md[mk]
                ELSE AggregatedMonth(md[mk], kpi, row, MonthIdx(mk) - 1)]

\* The body of the row loop
AggregatedRowStep(md, row, y) ==
    LET kpi == AggregatedClassify(ColText(row.first))
    IN  IF kpi = NoKpi THEN md
        ELSE IF ~Contains(YearLabel(y), ColText(row.second)) THEN md
        ELSE [mk \in MonthKeySet |-> AggregatedMonth(md[mk], kpi, row, MonthIdx(mk) - 1)]

-----------------------------------------------------------------------------
(* extract_legacy_format: the legacy extractor *)

LegacyInitial == [mk \in MonthKeySet |-> SevenNone]

LegacyClassify(first_col) ==
    IF Contains(KyakushitsuKadoritsu, first_col) \/ Contains(Kadoritsu, first_col)
    THEN "occupancy_pct"
    ELSE IF Contains(Adr, first_col) THEN "adr_jpy"
    ELSE IF Contains(RevPar, first_col) THEN "revpar_jpy"
    ELSE IF Contains(Uriage, first_col) THEN "sales_total_mil_jpy"
    ELSE NoKpi

\* year_patterns; the empty pattern of a year before 1989 is skipped by the loop
LegacyYearPatterns(y) ==
    IF y >= 1989 THEN {YearLabel(y), HeiseiLabel(y - 1988)} ELSE {YearLabel(y)}

\* A year test that looks for the digits of the year only
LegacyYearFoundDigits(second_col, y) ==
    Contains(Digits(y), second_col)

\* year_found
LegacyYearFound(second_col, y) ==
    \E pattern \in LegacyYearPatterns(y) : Contains(pattern, second_col)

\* A store that takes every occupancy as already-percent
LegacyStoreNoScale(kpi, value) ==
    IF NotNa(value) /\ ~StrIn(value, {"0", "-"})
    THEN LET f == ToFloat(value)
         IN  IF IsNone(f) THEN None
             ELSE IF kpi = "occupancy_pct" THEN Num(Round1(Val(f)))
             ELSE IF kpi \in {"adr_jpy", "revpar_jpy"} THEN Num(PyInt(Val(f)))
             ELSE IF EndsWithMilJpy(kpi) THEN Num(PyInt(Val(f)))
             ELSE None
    ELSE None

\* The value a cell stores under kpi: <<v>>, or <<>> when nothing is assigned
LegacyStore(kpi, value) ==
    IF NotNa(value) /\ ~StrIn(value, {"0", "-"})
    THEN LET f == ToFloat(value)
         IN  IF IsNone(f) THEN None
             ELSE IF kpi = "occupancy_pct"
                  THEN IF Val(f) > 1000 THEN Num(Round1(Val(f)))
                       ELSE Num(Round1(Val(f) * 100))
             ELSE IF kpi \in {"adr_jpy", "revpar_jpy"} THEN Num(PyInt(Val(f)))
             ELSE IF EndsWithMilJpy(kpi) THEN Num(PyInt(Val(f)))
             ELSE None
    ELSE None

\* A month loop that reads one column too far to the right
LegacyMonthShifted(rec, kpi, row, month_idx) ==
    LET col_idx == month_idx + 3
    IN  IF col_idx < RowLen(row)
        THEN LET v == LegacyStore(kpi, RowCell(row, col_idx))
             IN  IF IsNone(v) THEN rec ELSE [rec EXCEPT ![kpi] = v]
        ELSE rec

\* A month loop in which a cell that is not stored clears the month's value
LegacyMonthErase(rec, kpi, row, month_idx) ==
    LET col_idx == month_idx + 2
    IN  IF col_idx < RowLen(row)
        THEN [rec EXCEPT ![kpi] = LegacyStore(kpi, RowCell(row, col_idx))]
        ELSE rec

LegacyMonth(rec, kpi, row, month_idx) ==
    LET col_idx == month_idx + 2
    IN  IF col_idx < RowLen(row)
        THEN LET v == LegacyStore(kpi, RowCell(row, col_idx))
             IN  IF IsNone(v) THEN rec ELSE [rec EXCEPT ![kpi] = v]
        ELSE rec

\* The body of the row loop
LegacyRowStep(md, row, y) ==
    LET kpi == LegacyClassify(ColText(row.first))
    IN  IF kpi = NoKpi THEN md
        ELSE IF ~LegacyYearFound(ColText(row.second), y) THEN md
        ELSE [mk \in MonthKeySet |-> LegacyMonth(md[mk], kpi, row, MonthIdx(mk) - 1)]

-----------------------------------------------------------------------------
(* JHRYAMLGenerator.extract_monthly_data: the classification of the first cell *)

JHRYAMLGenerator_indicator_type(first_col) ==
    IF Contains(KyakushitsuKadoritsu, first_col) \/ Contains(Kadoritsu, first_col)
    THEN "occupancy_pct"
    ELSE IF Contains(Adr, first_col) THEN "adr_jpy"
    ELSE IF Contains(RevPar, first_col) THEN "revpar_jpy"
    ELSE IF Contains(Uriage, first_col) /\ Contains(Gokei, first_col)
    THEN "sales_total_mil_jpy"
    ELSE IF /\ Contains(Uriage, first_col)
            /\ Contains(Shukuhaku, first_col) \/ Contains(Room, first_col)
    THEN "sales_lodging_mil_jpy"
    ELSE IF /\ Contains(Uriage, first_col)
            /\ Contains(Ryoin, first_col) \/ Contains(FAndB, first_col)
    THEN "sales_fnb_mil_jpy"
    ELSE IF Contains(Uriage, first_col) /\ Contains(Sonota, first_col)
    THEN "sales_other_mil_jpy"
    ELSE NoKpi

-----------------------------------------------------------------------------
(* The extraction method of a year (process_excel_file) and the extractors as
   functions of (df, target_year) *)

EraOf(y) ==
    IF y >= 2024 THEN "aggregated"
    ELSE IF y = 2019 \/ (2020 <= y /\ y <= 2023) THEN "individual"
    ELSE "legacy"

RECURSIVE IndividualScan(_, _, _)
IndividualScan(st, rows, y) ==
    IF rows = <<>> THEN st
    ELSE IndividualScan(IndividualRowStep(st, Head(rows), y), Tail(rows), y)

RECURSIVE AggregatedScan(_, _, _)
AggregatedScan(md, rows, y) ==
    IF rows = <<>> THEN md
    ELSE AggregatedScan(AggregatedRowStep(md, Head(rows), y), Tail(rows), y)

RECURSIVE LegacyScan(_, _, _)
LegacyScan(md, rows, y) ==
    IF rows = <<>> THEN md
    ELSE LegacyScan(LegacyRowStep(md, Head(rows), y), Tail(rows), y)

extract_individual_hotels_aggregated(rows, y) ==
    IndividualFinish(IndividualScan(IndividualInitial, rows, y).md)

extract_aggregated_data(rows, y) == AggregatedScan(AggregatedInitial, rows, y)

extract_legacy_format(rows, y) == LegacyScan(LegacyInitial, rows, y)

\* The dispatch of process_excel_file
Extract(rows, y) ==
    CASE EraOf(y) = "aggregated" -> extract_aggregated_data(rows, y)
      [] EraOf(y) = "individual" -> extract_individual_hotels_aggregated(rows, y)
      [] OTHER -> extract_legacy_format(rows, y)

-----------------------------------------------------------------------------
(* The grids the extractors are run on: sequences of at most MaxRows rows drawn
   from a catalogue of rows written for the target year.  The model draws the
   rows one at a time, as the row loop reaches them. *)

LblOccupancy == TextCell(<<"KYAKUSHITSU", "KADORITSU">>)          \* 客室稼働率
LblAdrEn == TextCell(<<"ADR", "(", "EN", ")">>)                    \* ADR（円）
LblAdr == TextCell(<<"ADR">>)                                      \* ADR
LblRevParEn == TextCell(<<"RevPAR", "(", "EN", ")">>)              \* RevPAR（円）
LblSales == TextCell(<<"URIAGE", "DAKA", "(", "HYAKUMAN", "EN", ")">>)   \* 売上高（百万円）
LblLodging == TextCell(<<"SHUKUHAKU", "URIAGE">>)                  \* 宿泊売上
LblMarker == TextCell(<<"BUKKENBANGO", "1">>)                      \* 物件番号1
LblNote == TextCell(<<"BIKO">>)                                    \* 備考

YearCell(y) == TextCell(YearLabel(y))
HeiseiCell(y) == TextCell(HeiseiLabel(y - 1988))

CommonRows(y) ==
    { Row(LblOccupancy, YearCell(y), <<FloatCell(600), FloatCell(653)>>),
      Row(LblOccupancy, YearCell(y), <<FloatCell(65300), IntCell(150)>>),
      Row(LblOccupancy, YearCell(y), <<FloatCell(0), StrCell("-")>>),
      Row(LblOccupancy, YearCell(y - 1), <<FloatCell(900), FloatCell(900)>>),
      Row(LblAdrEn, YearCell(y), <<IntCell(5000), IntCell(500)>>),
      Row(LblRevParEn, YearCell(y), <<StrCell("abc"), FloatCell(4000700)>>),
      Row(LblSales, YearCell(y), <<FloatCell(12500), FloatCell(400)>>),
      Row(NaN, YearCell(y), <<StrCell("0.7"), IntCell(6000)>>) }

IndividualRows(y) ==
    { Row(LblOccupancy, YearCell(y), <<FloatCell(700), IntCell(0)>>),
      Row(LblOccupancy, YearCell(y), <<FloatCell(800), NaN>>),
      Row(LblMarker, YearCell(y), <<FloatCell(500), IntCell(7000)>>),
      Row(LblNote, YearCell(y), <<FloatCell(100), IntCell(9000)>>) }

AggregatedRows(y) ==
    { Row(LblAdrEn, YearCell(y), <<IntCell(200000), FloatCell(0)>>),
      Row(LblSales, YearCell(y), <<IntCell(30), IntCell(-3)>>) }

LegacyRows(y) ==
    { Row(LblAdr, HeiseiCell(y), <<FloatCell(0), IntCell(200000)>>),
      Row(LblOccupancy, YearCell(y), <<IntCell(-5), FloatCell(1000)>>),
      Row(LblLodging, YearCell(y), <<IntCell(7), IntCell(-3)>>) }

Catalogue(y) ==
    CommonRows(y) \cup
    (CASE EraOf(y) = "aggregated" -> AggregatedRows(y)
       [] EraOf(y) = "individual" -> IndividualRows(y)
       [] OTHER -> LegacyRows(y))

\* The years the extractors are invoked for: one of each era
TargetYears == {2016, 2019, 2024}

-----------------------------------------------------------------------------
(* The extractors as state machines: one invocation after another *)

\* No extractor has been called
IdleScan ==
    /\ target_year = 0
    /\ grid = <<>>
    /\ monthly_data = <<>>
    /\ current_kpi_type = NoKpi
    /\ current_hotel_count = 0
    /\ called_before = FALSE

\* process_excel_file has not been called
IdleProcess ==
    /\ year = 0
    /\ file_state = "none"
    /\ sheet_names = <<>>
    /\ df = <<>>
    /\ main_sheet = None
    /\ result = None

\* generate_yaml has not been called
IdleAssembler ==
    /\ annual_summary = <<>>
    /\ all_data = <<>>
    /\ successful_years = <<>>
    /\ yaml_data = None
    /\ processed = <<>>
    /\ succeeded = {}

Init == pc = "idle" /\ IdleScan /\ IdleProcess /\ IdleAssembler

\* An extractor is called with (df, target_year): its locals are initialised
Invoke ==
    /\ pc \in {"idle", "done"}
    /\ called_before' = (pc = "done")
    /\ \E y \in TargetYears :
        /\ target_year' = y
        /\ grid' = <<>>
        /\ IF EraOf(y) = "individual"
           THEN /\ monthly_data' = IndividualInitial.md
                /\ current_kpi_type' = IndividualInitial.kpi
                /\ current_hotel_count' = IndividualInitial.hotels
           ELSE /\ monthly_data' = IF EraOf(y) = "aggregated"
                                   THEN AggregatedInitial ELSE LegacyInitial
                \* the other extractors have no such locals
                /\ current_kpi_type' = NoKpi
                /\ current_hotel_count' = 0
    /\ pc' = "scan"
    /\ UNCHANGED <<year, procVars, asmVars, annVars>>

\* One iteration of the row loop of extract_individual_hotels_aggregated
IndividualRow ==
    /\ pc = "scan"
    /\ EraOf(target_year) = "individual"
    /\ Len(grid) < MaxRows
    /\ \E row \in Catalogue(target_year) :
        LET st == IndividualRowStep([md |-> monthly_data, kpi |-> current_kpi_type,
                                     hotels |-> current_hotel_count], row, target_year)
        IN  /\ grid' = Append(grid, row)
            /\ monthly_data' = st.md
            /\ current_kpi_type' = st.kpi
            /\ current_hotel_count' = st.hotels
    /\ UNCHANGED <<target_year, pc, called_before, year, procVars, asmVars, annVars>>

\* The averaging loop and the return of extract_individual_hotels_aggregated
IndividualReturn ==
    /\ pc = "scan"
    /\ EraOf(target_year) = "individual"
    /\ monthly_data' = IndividualFinish(monthly_data)
    /\ pc' = "done"
    /\ UNCHANGED <<target_year, grid, current_kpi_type, current_hotel_count, called_before,
                   year, procVars, asmVars, annVars>>

\* One iteration of the row loop of extract_aggregated_data
AggregatedRow ==
    /\ pc = "scan"
    /\ EraOf(target_year) = "aggregated"
    /\ Len(grid) < MaxRows
    /\ \E row \in Catalogue(target_year) :
        /\ grid' = Append(grid, row)
        /\ monthly_data' = AggregatedRowStep(monthly_data, row, target_year)
    /\ UNCHANGED <<target_year, current_kpi_type, current_hotel_count, pc, called_before,
                   year, procVars, asmVars, annVars>>

\* One iteration of the row loop of extract_legacy_format
LegacyRow ==
    /\ pc = "scan"
    /\ EraOf(target_year) = "legacy"
    /\ Len(grid) < MaxRows
    /\ \E row \in Catalogue(target_year) :
        /\ grid' = Append(grid, row)
        /\ monthly_data' = LegacyRowStep(monthly_data, row, target_year)
    /\ UNCHANGED <<target_year, current_kpi_type, current_hotel_count, pc, called_before,
                   year, procVars, asmVars, annVars>>

\* The return of extract_aggregated_data and of extract_legacy_format
PlainReturn ==
    /\ pc = "scan"
    /\ EraOf(target_year) \in {"aggregated", "legacy"}
    /\ pc' = "done"
    /\ UNCHANGED <<scanVars, year, procVars, asmVars, annVars>>

Next ==
    \/ Invoke
    \/ IndividualRow
    \/ IndividualReturn
    \/ AggregatedRow
    \/ LegacyRow
    \/ PlainReturn

Spec == Init /\ [][Next]_vars

\* The first call of an extractor on a fresh object
FirstInvoke == pc = "idle" /\ Invoke

\* One call of an extractor, from its entry to its return
ScanNext ==
    \/ FirstInvoke
    \/ IndividualRow
    \/ IndividualReturn
    \/ AggregatedRow
    \/ LegacyRow
    \/ PlainReturn

SpecScan == Init /\ [][ScanNext]_vars

-----------------------------------------------------------------------------
(* calculate_annual_summary of FixedJHRDataExtractor *)

\* the months of monthly_data in dict order whose record satisfies keep
MonthsWhere(md, keep(_)) == {mk \in MonthKeySet : keep(md[mk])}

\* "if d[k]": the value is neither None nor 0
Truthy(x) == ~IsNone(x) /\ Val(x) # 0

\* A summary without the occupancy gate: every month counts as valid
CalculateAnnualSummaryNoGate(md) ==
    LET with(k) == {mk \in MonthKeySet : Truthy(md[mk][k])}
        total(k) == SumOver([mk \in with(k) |-> Val(md[mk][k])], with(k))
    IN  IF \A mk \in MonthKeySet : \A k \in MetricKeys : IsNone(md[mk][k])
        THEN [occupancy_avg_pct |-> None, adr_avg_jpy |-> None,
              revpar_avg_jpy |-> None, sales_total_annual_mil_jpy |-> None]
        ELSE [occupancy_avg_pct |->
                  IF with("occupancy_pct") # {}
                  THEN Num(RoundHalfEven(total("occupancy_pct"),
                                         Cardinality(with("occupancy_pct"))))
                  ELSE None,
              adr_avg_jpy |->
                  IF with("adr_jpy") # {}
                  THEN Num(Trunc(total("adr_jpy"), Cardinality(with("adr_jpy"))))
                  ELSE None,
              revpar_avg_jpy |->
                  IF with("revpar_jpy") # {}
                  THEN Num(Trunc(total("revpar_jpy"), Cardinality(with("revpar_jpy"))))
                  ELSE None,
              sales_total_annual_mil_jpy |->
                  IF with("sales_total_mil_jpy") # {}
                  THEN Num(total("sales_total_mil_jpy"))
                  ELSE None]

\* A summary whose sales total is sum(sales) without "if sales else None"
CalculateAnnualSummaryZeroTotal(md) ==
    LET valid == MonthsWhere(md, LAMBDA d : ~IsNone(d["occupancy_pct"]))
        with(k) == {mk \in valid : Truthy(md[mk][k])}
        total(k) == SumOver([mk \in with(k) |-> Val(md[mk][k])], with(k))
    IN  IF valid = {}
        THEN [occupancy_avg_pct |-> None, adr_avg_jpy |-> None,
              revpar_avg_jpy |-> None, sales_total_annual_mil_jpy |-> None]
        ELSE [occupancy_avg_pct |->
                  IF with("occupancy_pct") # {}
                  THEN Num(RoundHalfEven(total("occupancy_pct"),
                                         Cardinality(with("occupancy_pct"))))
                  ELSE None,
              adr_avg_jpy |->
                  IF with("adr_jpy") # {}
                  THEN Num(Trunc(total("adr_jpy"), Cardinality(with("adr_jpy"))))
                  ELSE None,
              revpar_avg_jpy |->
                  IF with("revpar_jpy") # {}
                  THEN Num(Trunc(total("revpar_jpy"), Cardinality(with("revpar_jpy"))))
                  ELSE None,
              sales_total_annual_mil_jpy |-> Num(total("sales_total_mil_jpy"))]

calculate_annual_summary(md) ==
    LET valid == MonthsWhere(md, LAMBDA d : ~IsNone(d["occupancy_pct"]))
        with(k) == {mk \in valid : Truthy(md[mk][k])}
        vals(k) == [mk \in with(k) |-> Val(md[mk][k])]
        total(k) == SumOver(vals(k), with(k))
    IN  IF valid = {}
        THEN [occupancy_avg_pct |-> None, adr_avg_jpy |-> None,
              revpar_avg_jpy |-> None, sales_total_annual_mil_jpy |-> None]
        ELSE [occupancy_avg_pct |->
                  IF with("occupancy_pct") # {}
                  THEN Num(RoundHalfEven(total("occupancy_pct"),
                                         Cardinality(with("occupancy_pct"))))
                  ELSE None,
              adr_avg_jpy |->
                  IF with("adr_jpy") # {}
                  THEN Num(Trunc(total("adr_jpy"), Cardinality(with("adr_jpy"))))
                  ELSE None,
              revpar_avg_jpy |->
                  IF with("revpar_jpy") # {}
                  THEN Num(Trunc(total("revpar_jpy"), Cardinality(with("revpar_jpy"))))
                  ELSE None,
              sales_total_annual_mil_jpy |->
                  IF with("sales_total_mil_jpy") # {}
                  THEN Num(total("sales_total_mil_jpy"))
                  ELSE None]

-----------------------------------------------------------------------------
(* process_excel_file of FixedJHRDataExtractor *)

Hendo28Hoteru == <<"HENDO", "2", "8", "HOTERU">>      \* "変動賃料等導入28ホテル"
Hendo == <<"HENDO">>                                   \* "変動賃料等導入"
Hmj == <<"HMJ">>
Chui == <<"CHUI">>                                     \* "注意"

\* A selection that takes the variable-rent sheet for every year from 2019 on
EraKeywordSince2019(y) ==
    IF y >= 2024 THEN Hendo28Hoteru
    ELSE IF y >= 2019 THEN Hendo
    ELSE Hmj

\* the keyword of the branch of the sheet selection taken for year y
EraKeyword(y) ==
    IF y >= 2024 THEN Hendo28Hoteru
    ELSE IF y = 2019 THEN Hendo
    ELSE IF 2020 <= y /\ y <= 2023 THEN Hmj
    ELSE Hmj

\* for sheet_name in names: if keyword in sheet_name: main_sheet = sheet_name; break
FirstContaining(names, keyword) ==
    LET hits == {i \in 1..Len(names) : Contains(keyword, names[i])}
    IN  IF hits = {} THEN None
        ELSE names[CHOOSE i \in hits : \A j \in hits : i <= j]

\* main_sheet after the sheet selection
SelectSheet(names, y) == FirstContaining(names, EraKeyword(y))

\* A count that skips the months whose occupancy is 0.0 ("if data['occupancy_pct']")
ValidMonthsTruthy(md) ==
    Cardinality({mk \in DOMAIN md : Truthy(md[mk]["occupancy_pct"])})

\* valid_months
ValidMonths(md) ==
    Cardinality({mk \in DOMAIN md : ~IsNone(md[mk]["occupancy_pct"])})

\* the value process_excel_file returns once df has been read from sheet
ProcessSheet(y, sheet, rows) ==
    LET md == Extract(rows, y)
        valid_months == ValidMonths(md)
    IN  IF valid_months = 0 THEN None
        ELSE [year |-> y,
              sheet_used |-> sheet,
              monthly_data |-> md,
              annual_summary |-> calculate_annual_summary(md),
              valid_months |-> valid_months]

\* process_excel_file(year), given what the file system holds for the year:
\* fstate "missing" (no file), "corrupt" (pandas raises while opening or reading
\* the workbook; the exception is caught) or "ok"
process_excel_file(y, fstate, names, rows) ==
    IF fstate = "missing" THEN None
    ELSE IF fstate = "corrupt" THEN None
    ELSE IF SelectSheet(names, y) = <<>> THEN None
    ELSE ProcessSheet(y, SelectSheet(names, y), rows)

FirstYear == 2015
EndYear == 2026
\* range(2015, 2026)
Years == FirstYear..(EndYear - 1)

(* Inputs of process_excel_file *)

SheetHendo28 == <<"HENDO", "2", "8", "HOTERU">>       \* 変動賃料等導入28ホテル
SheetHendo21 == <<"HENDO", "2", "1", "HOTERU">>       \* 変動賃料等導入21ホテル
SheetHmj == <<"HMJ", "5", "HOTERU">>                  \* HMJ5ホテル
SheetChui == <<"CHUI", "JIKO">>                       \* 注意事項
SheetAccor == <<"ACCOR">>

SheetNameChoices == {SheetHendo28, SheetHendo21, SheetHmj, SheetChui, SheetAccor}

RECURSIVE SeqsUpTo(_, _)
\* the sequences of at most n elements of S
SeqsUpTo(S, n) ==
    IF n = 0 THEN {<<>>}
    ELSE LET shorter == SeqsUpTo(S, n - 1)
         IN  shorter \cup {Append(q, x) : q \in shorter, x \in S}

\* the grids a selected sheet may hold: no row, any one row of the catalogue, or
\* an occupancy, an ADR and a sales row together
ProcessGrids(y) ==
    {<<>>} \cup {<<r>> : r \in Catalogue(y)} \cup
    {<< Row(LblOccupancy, YearCell(y), <<FloatCell(600), FloatCell(653)>>),
        Row(LblAdrEn, YearCell(y), <<IntCell(5000), IntCell(500)>>),
        Row(LblSales, YearCell(y), <<FloatCell(12500), FloatCell(400)>>) >>}

ProcessInit == pc = "p_idle" /\ IdleScan /\ IdleProcess /\ IdleAssembler

\* A call of process_excel_file whose file is missing or cannot be read
ProcessNoFile ==
    /\ pc = "p_idle"
    /\ \E y \in Years, fs \in {"missing", "corrupt"} :
        /\ year' = y
        /\ file_state' = fs
        /\ result' = process_excel_file(y, fs, <<>>, <<>>)
    /\ sheet_names' = <<>>
    /\ main_sheet' = None
    /\ df' = <<>>
    /\ pc' = "p_done"
    /\ UNCHANGED <<scanVars, asmVars, annVars>>

\* A call of process_excel_file on a workbook that opens
ProcessWorkbook ==
    /\ pc = "p_idle"
    /\ \E y \in Years, names \in SeqsUpTo(SheetNameChoices, MaxSheets) :
        \E rows \in ProcessGrids(y) :
            /\ year' = y
            /\ file_state' = "ok"
            /\ sheet_names' = names
            /\ main_sheet' = SelectSheet(names, y)
            /\ df' = IF SelectSheet(names, y) = <<>> THEN <<>> ELSE rows
            /\ result' = process_excel_file(y, "ok", names, rows)
    /\ pc' = "p_done"
    /\ UNCHANGED <<scanVars, asmVars, annVars>>

ProcessNext == ProcessNoFile \/ ProcessWorkbook

SpecProcess == ProcessInit /\ [][ProcessNext]_vars

-----------------------------------------------------------------------------
(* generate_yaml of FixedJHRDataExtractor *)

DefaultStartYear == 2015
DefaultEndYear == 2025
CovidFirstYear == 2020
CovidLastYear == 2022

\* min(...) and max(...) of a non-empty list of integers
MinOf(q) == CHOOSE x \in {q[i] : i \in 1..Len(q)} : \A j \in 1..Len(q) : x <= q[j]
MaxOf(q) == CHOOSE x \in {q[i] : i \in 1..Len(q)} : \A j \in 1..Len(q) : x >= q[j]

\* The integers of a set in descending order
SortedOfDescending(S) ==
    [i \in 1..Cardinality(S) |->
        CHOOSE x \in S : Cardinality({z \in S : z > x}) = i - 1]

\* sorted(S) of a set of integers
SortedOf(S) ==
    [i \in 1..Cardinality(S) |->
        CHOOSE x \in S : Cardinality({z \in S : z < x}) = i - 1]

\* sorted(successful_years)
SortedYears(q) == SortedOf({q[i] : i \in 1..Len(q)})

\* the entry of datasets[str(year)]; special_notes is set for 2020..2022 only
DatasetEntry(y, data) ==
    LET entry == [key |-> Digits(y),
                  sheet_used |-> data.sheet_used,
                  valid_months |-> data.valid_months,
                  monthly_data |-> data.monthly_data,
                  annual_summary |-> data.annual_summary]
    IN  IF CovidFirstYear <= y /\ y <= CovidLastYear
        THEN entry @@ [special_notes |-> <<"COVID-19">>]
        ELSE entry

\* A coverage_period that counts the years looked at, not the years that succeeded
CoveragePeriodAllYears(ok_years) ==
    [start_year |-> IF ok_years # <<>> THEN MinOf(ok_years) ELSE DefaultStartYear,
     end_year |-> IF ok_years # <<>> THEN MaxOf(ok_years) ELSE DefaultEndYear,
     total_years |-> EndYear - FirstYear]

\* "coverage_period" of the document
CoveragePeriod(ok_years) ==
    [start_year |-> IF ok_years # <<>> THEN MinOf(ok_years) ELSE DefaultStartYear,
     end_year |-> IF ok_years # <<>> THEN MaxOf(ok_years) ELSE DefaultEndYear,
     total_years |-> Len(ok_years)]

\* A document whose total_valid_months takes every dataset for a full year
BuildDocumentFullYears(data, ok_years) ==
    LET in_order == SortedYears(ok_years)
    IN  [coverage_period |-> CoveragePeriod(ok_years),
         datasets |-> [i \in 1..Len(in_order) |-> DatasetEntry(in_order[i], data[in_order[i]])],
         metadata |-> [total_valid_months |-> NumMonths * Len(ok_years)]]

\* the document generate_yaml dumps: the datasets in the order they are inserted
BuildDocument(data, ok_years) ==
    LET in_order == SortedYears(ok_years)
        months == [y \in DOMAIN data |-> data[y].valid_months]
    IN  [coverage_period |-> CoveragePeriod(ok_years),
         datasets |-> [i \in 1..Len(in_order) |-> DatasetEntry(in_order[i], data[in_order[i]])],
         metadata |-> [total_valid_months |-> SumOver(months, DOMAIN data)]]

\* "if result:" all_data[year] = result; successful_years.append(year)
StoreResult(data, ok_years, y, res) ==
    IF res # <<>>
    THEN [all_data |-> data @@ (y :> res), successful_years |-> Append(ok_years, y)]
    ELSE [all_data |-> data, successful_years |-> ok_years]

\* What may be on disk for year y when generate_yaml runs: no file, a file
\* pandas cannot read, a workbook with only a disclaimer sheet, a workbook whose
\* sheet has no occupancy row of the year, and a workbook with an occupancy row
\* of the year (a fraction in January, a percentage in February)
AssemblerInputs(y) ==
    LET names == <<SheetChui, SheetHendo28, SheetHmj>>
    IN  { [fs |-> "missing", names |-> <<>>, rows |-> <<>>],
          [fs |-> "corrupt", names |-> <<>>, rows |-> <<>>],
          [fs |-> "ok", names |-> <<SheetChui>>, rows |-> <<>>],
          [fs |-> "ok", names |-> names,
           rows |-> <<Row(LblOccupancy, YearCell(y - 1), <<FloatCell(900), FloatCell(900)>>)>>],
          [fs |-> "ok", names |-> names,
           rows |-> <<Row(LblOccupancy, YearCell(y), <<FloatCell(600), FloatCell(65300)>>)>>] }

AssemblerInit ==
    /\ pc = "loop"
    /\ IdleScan
    /\ IdleProcess
    /\ IdleAssembler

\* the loop variable of "for year in range(2015, 2026)"
LoopYear == FirstYear + Len(processed)

\* One iteration of the loop over the years
GenerateYamlYear ==
    /\ pc = "loop"
    /\ LoopYear < EndYear
    /\ \E in \in AssemblerInputs(LoopYear) :
        LET res == process_excel_file(LoopYear, in.fs, in.names, in.rows)
            st == StoreResult(all_data, successful_years, LoopYear, res)
        IN  /\ year' = LoopYear
            /\ file_state' = in.fs
            /\ sheet_names' = in.names
            /\ main_sheet' = IF in.fs = "ok" THEN SelectSheet(in.names, LoopYear) ELSE None
            /\ df' = IF in.fs = "ok" /\ SelectSheet(in.names, LoopYear) # <<>>
                     THEN in.rows ELSE <<>>
            /\ result' = res
            /\ all_data' = st.all_data
            /\ successful_years' = st.successful_years
            /\ processed' = Append(processed, LoopYear)
            /\ succeeded' = IF res # <<>> THEN succeeded \cup {LoopYear} ELSE succeeded
    /\ UNCHANGED <<scanVars, pc, yaml_data, annVars>>

\* After the loop: the document is built and returned
GenerateYamlReturn ==
    /\ pc = "loop"
    /\ LoopYear >= EndYear
    /\ yaml_data' = BuildDocument(all_data, successful_years)
    /\ pc' = "returned"
    /\ UNCHANGED <<scanVars, year, procVars, all_data, successful_years, processed, succeeded,
                   annVars>>

AssemblerNext == GenerateYamlYear \/ GenerateYamlReturn

SpecAssembler == AssemblerInit /\ [][AssemblerNext]_vars

\* The loop is a sequential for loop whose iterations end: it is never left idle
SpecAssemblerFair == SpecAssembler /\ WF_vars(AssemblerNext)

-----------------------------------------------------------------------------
(* The three annual summaries: calculate_annual_summary of FixedJHRDataExtractor
   (above) and of JHRYAMLGenerator, _calculate_annual_summary of JHRDataFetcher.
   Occupancy is in tenths of a percent, so round(x, 1) is a rounding to an
   integer number of tenths. *)

\* the summary of a year without valid months
AllNullSummary ==
    [occupancy_avg_pct |-> None, adr_avg_jpy |-> None,
     revpar_avg_jpy |-> None, sales_total_annual_mil_jpy |-> None]

\* JHRYAMLGenerator.calculate_annual_summary: the lists keep what "is not None"
JHRYAMLGenerator_calculate_annual_summary(md) ==
    LET valid_months == MonthsWhere(md, LAMBDA d : ~IsNone(d["occupancy_pct"]))
        with(k) == {mk \in valid_months : ~IsNone(md[mk][k])}
        total(k) == SumOver([mk \in with(k) |-> Val(md[mk][k])], with(k))
        mean(k) == IF with(k) # {}
                   THEN Num(RoundHalfEven(total(k), Cardinality(with(k))))
                   ELSE None
    IN  IF valid_months = {} THEN AllNullSummary
        ELSE [occupancy_avg_pct |-> mean("occupancy_pct"),
              adr_avg_jpy |-> mean("adr_jpy"),
              revpar_avg_jpy |-> mean("revpar_jpy"),
              sales_total_annual_mil_jpy |->
                  IF with("sales_total_mil_jpy") # {}
                  THEN Num(total("sales_total_mil_jpy"))
                  ELSE None]

\* JHRDataFetcher._calculate_annual_summary: the sums skip the falsy values, the
\* divisor is len(valid_months), and a falsy average or total becomes None
JHRDataFetcher_calculate_annual_summary(md) ==
    LET valid_months == MonthsWhere(md, LAMBDA d : ~IsNone(d["occupancy_pct"]))
        with(k) == {mk \in valid_months : Truthy(md[mk][k])}
        total(k) == SumOver([mk \in with(k) |-> Val(md[mk][k])], with(k))
        avg(k) == IF total(k) # 0
                  THEN Num(RoundHalfEven(total(k), Cardinality(valid_months)))
                  ELSE None
    IN  IF valid_months = {} THEN AllNullSummary
        ELSE [occupancy_avg_pct |-> avg("occupancy_pct"),
              adr_avg_jpy |-> avg("adr_jpy"),
              revpar_avg_jpy |-> avg("revpar_jpy"),
              sales_total_annual_mil_jpy |->
                  IF total("sales_total_mil_jpy") # 0
                  THEN Num(total("sales_total_mil_jpy"))
                  ELSE None]

(* Inputs: twelve MonthlyRecords of which the first MaxFilledMonths may hold
   values.  An occupancy is null, 0.0, 60.0 or 65.4; an ADR is null, 5000 or
   6003; sales are null, 0 or 12; RevPAR (the same code path as ADR) is 4001 in
   the months that have sales. *)

\* a MonthlyRecord with occupancy o, ADR a and sales t
AnnualRecord(o, a, t) ==
    [k \in SevenKeys |->
        CASE k = "occupancy_pct" -> o
          [] k = "adr_jpy" -> a
          [] k = "sales_total_mil_jpy" -> t
          [] k = "revpar_jpy" -> IF IsNone(t) THEN None ELSE Num(4001)
          [] OTHER -> None]

AnnualRecords ==
    {AnnualRecord(o, a, t) :
        o \in {None, Num(0), Num(600), Num(654)},
        a \in {None, Num(5000), Num(6003)},
        t \in {None, Num(0), Num(12)}}

\* the dict holding recs in its first months and no value in the others
AnnualDict(recs) ==
    [mk \in MonthKeySet |->
        IF MonthIdx(mk) <= MaxFilledMonths THEN recs[MonthIdx(mk)] ELSE SevenNone]

AnnualInit == pc = "a_idle" /\ IdleScan /\ IdleProcess /\ IdleAssembler

\* The monthly_data of a year is at hand
AnnualInput ==
    /\ pc = "a_idle"
    /\ \E recs \in [1..MaxFilledMonths -> AnnualRecords] :
          monthly_data' = AnnualDict(recs)
    /\ pc' = "a_ready"
    /\ UNCHANGED <<target_year, grid, current_kpi_type, current_hotel_count, called_before,
                   year, procVars, asmVars, annVars>>

\* A call of FixedJHRDataExtractor.calculate_annual_summary(monthly_data)
FixedAnnualize ==
    /\ pc = "a_ready"
    /\ annual_summary' = calculate_annual_summary(monthly_data)
    /\ pc' = "a_fixed"
    /\ UNCHANGED <<scanVars, year, procVars, asmVars>>

\* A call of JHRYAMLGenerator.calculate_annual_summary(monthly_data)
ComprehensiveAnnualize ==
    /\ pc = "a_ready"
    /\ annual_summary' = JHRYAMLGenerator_calculate_annual_summary(monthly_data)
    /\ pc' = "a_comprehensive"
    /\ UNCHANGED <<scanVars, year, procVars, asmVars>>

\* A call of JHRDataFetcher._calculate_annual_summary(monthly_data)
FetcherAnnualize ==
    /\ pc = "a_ready"
    /\ annual_summary' = JHRDataFetcher_calculate_annual_summary(monthly_data)
    /\ pc' = "a_fetcher"
    /\ UNCHANGED <<scanVars, year, procVars, asmVars>>

AnnualNext == AnnualInput \/ FixedAnnualize \/ ComprehensiveAnnualize \/ FetcherAnnualize

SpecAnnual == AnnualInit /\ [][AnnualNext]_vars

-----------------------------------------------------------------------------
(* The occupancy normalisation of extract_legacy_format and of
   extract_aggregated_data, run on one occupancy row that holds a fraction in
   January and its percent equivalent in February *)

\* the fractions of [0, 1] a float of the model can hold, in thousandths
UnitFractions == 0..1000

\* the row holding f and 100 * f
FractionAndPercentRow(y, f) ==
    Row(LblOccupancy, YearCell(y), <<FloatCell(f), FloatCell(100 * f)>>)

NormalizeInit == pc = "n_idle" /\ IdleScan /\ IdleProcess /\ IdleAssembler

\* A call of the extractor of a legacy or a pre-aggregated year on the row
Normalize ==
    /\ pc = "n_idle"
    /\ \E y \in {t \in TargetYears : EraOf(t) # "individual"}, f \in UnitFractions :
        /\ target_year' = y
        /\ grid' = <<FractionAndPercentRow(y, f)>>
        /\ monthly_data' = Extract(<<FractionAndPercentRow(y, f)>>, y)
    /\ pc' = "n_done"
    /\ UNCHANGED <<current_kpi_type, current_hotel_count, called_before,
                   year, procVars, asmVars, annVars>>

NormalizeNext == Normalize

SpecNormalize == NormalizeInit /\ [][NormalizeNext]_vars

-----------------------------------------------------------------------------
(* The period matching of extract_legacy_format, run on a sheet whose last row
   carries one of several year cells *)

\* the years process_excel_file hands to extract_legacy_format
LegacyYears == {y \in Years : EraOf(y) = "legacy"}

\* year cells that name the target year in one of the two notations
MatchingYearCells(y) ==
    { YearCell(y),
      HeiseiCell(y),
      TextCell(<<"FY">> \o YearLabel(y) \o <<"DO">>) }

\* year cells that name another year, or hold digits without the era marker
OtherYearCells(y) ==
    { YearCell(y - 1), YearCell(y + 1),
      HeiseiCell(y - 1), HeiseiCell(y + 1),
      IntCell(y),
      TextCell(Digits(y)),
      TextCell(<<"HEISEI">> \o Digits(y - 1988)),
      NaN }

\* the rows read before the last one
PeriodBases(y) ==
    { <<>>,
      <<Row(LblOccupancy, YearCell(y), <<FloatCell(600), FloatCell(653)>>)>>,
      <<Row(LblAdr, HeiseiCell(y), <<IntCell(5000), IntCell(6000)>>)>> }

PeriodLabels == {LblOccupancy, LblAdr, LblNote}

PeriodInit == pc = "y_idle" /\ IdleScan /\ IdleProcess /\ IdleAssembler

\* A call of extract_legacy_format on a sheet ending with the row
PeriodMatch ==
    /\ pc = "y_idle"
    /\ \E y \in LegacyYears, lbl \in PeriodLabels :
       \E base \in PeriodBases(y), yc \in MatchingYearCells(y) \cup OtherYearCells(y) :
        LET rows == Append(base, Row(lbl, yc, <<FloatCell(700), IntCell(7000)>>))
        IN  /\ target_year' = y
            /\ grid' = rows
            /\ monthly_data' = extract_legacy_format(rows, y)
    /\ pc' = "y_done"
    /\ UNCHANGED <<current_kpi_type, current_hotel_count, called_before,
                   year, procVars, asmVars, annVars>>

PeriodNext == PeriodMatch

SpecPeriod == PeriodInit /\ [][PeriodNext]_vars

-----------------------------------------------------------------------------
(* process_excel_file on a legacy workbook whose sheet has one occupancy row
   with twelve values in (1, 100] *)

\* the twelve values of the example, in percent
ExampleOccupancy == <<55, 60, 65, 70, 75, 80, 85, 80, 75, 70, 65, 60>>

\* the float column i (1..12) may hold in place of the integer of the example:
\* x.14 in the first five columns, x.86 below it in the next five, x.0 in the
\* last two
EndToEndFloat(i) ==
    FloatCell(ExampleOccupancy[i] * 1000
              + (IF i <= 5 THEN 140 ELSE IF i <= 10 THEN -140 ELSE 0))

\* the occupancy rows: in each column the integer of the example or the float
EndToEndCells ==
    {[i \in 1..NumMonths |->
        IF i \in floats THEN EndToEndFloat(i) ELSE IntCell(ExampleOccupancy[i])] :
     floats \in SUBSET (1..NumMonths)}

\* the sheets: the occupancy row alone, or below an ADR row of the year
EndToEndGrids(y, cells) ==
    {<<Row(LblOccupancy, YearCell(y), cells)>>,
     <<Row(LblAdr, HeiseiCell(y), <<FloatCell(0), IntCell(200000)>>),
       Row(LblOccupancy, YearCell(y), cells)>>}

EndToEndInit == pc = "e_idle" /\ IdleScan /\ IdleProcess /\ IdleAssembler

\* A call of process_excel_file for a legacy year on such a workbook
EndToEnd ==
    /\ pc = "e_idle"
    /\ \E y \in {t \in Years : EraOf(t) = "legacy"}, cells \in EndToEndCells :
        \E rows \in EndToEndGrids(y, cells) :
            LET names == <<SheetChui, SheetHmj>>
            IN  /\ year' = y
                /\ file_state' = "ok"
                /\ sheet_names' = names
                /\ main_sheet' = SelectSheet(names, y)
                /\ df' = rows
                /\ result' = process_excel_file(y, "ok", names, rows)
    /\ pc' = "e_done"
    /\ UNCHANGED <<scanVars, asmVars, annVars>>

EndToEndNext == EndToEnd

SpecEndToEnd == EndToEndInit /\ [][EndToEndNext]_vars

-----------------------------------------------------------------------------
(* Claims about the extractors *)

Returned == pc = "done"
Era == EraOf(target_year)
Present(mk, k) == k \in DOMAIN monthly_data[mk] /\ ~IsNone(monthly_data[mk][k])

\* C1: every non-null occupancy_pct returned by each of the three extractors lies
\* in [0, 100] (0..1000 tenths of a percent).
C1_OccupancyInRange ==
    Returned =>
        \A mk \in MonthKeySet :
            Present(mk, "occupancy_pct") =>
                /\ 0 <= Val(monthly_data[mk]["occupancy_pct"])
                /\ Val(monthly_data[mk]["occupancy_pct"]) <= 1000

\* C2: every non-null adr_jpy and revpar_jpy returned by each of the three
\* extractors lies in [1000, 100000].
C2_AdrRevparInRange ==
    Returned =>
        \A mk \in MonthKeySet : \A k \in {"adr_jpy", "revpar_jpy"} :
            Present(mk, k) =>
                /\ 1000 <= Val(monthly_data[mk][k])
                /\ Val(monthly_data[mk][k]) <= 100000

\* C3: the monthly data returned by any extractor has the twelve month keys, and
\* every month has the seven metric keys and no other.
C3_SevenKeys ==
    Returned =>
        /\ DOMAIN monthly_data = MonthKeySet
        /\ \A mk \in MonthKeySet : DOMAIN monthly_data[mk] = SevenKeys

\* C4: no metric is returned as 0, and sales values are strictly positive when
\* they are non-null.
C4_NeverZero ==
    Returned =>
        \A mk \in MonthKeySet : \A k \in DOMAIN monthly_data[mk] :
            ~IsNone(monthly_data[mk][k]) =>
                /\ Val(monthly_data[mk][k]) # 0
                /\ EndsWithMilJpy(k) => Val(monthly_data[mk][k]) > 0

\* the rows of rows (by index) that are a property marker or carry a KPI label
Labelled(rows) ==
    {j \in 1..Len(rows) :
        \/ Contains(BukkenBango, ColText(rows[j].first))
        \/ IndividualClassify(ColText(rows[j].first), NoKpi) # NoKpi}

\* the label row i of rows is read under
LabelInForce(rows, i) ==
    LET before == {j \in Labelled(rows) : j <= i}
    IN  IF before = {} THEN NoKpi
        ELSE LET j == CHOOSE m \in before : \A n \in before : n <= m
             IN  IF Contains(BukkenBango, ColText(rows[j].first)) THEN NoKpi
                 ELSE IndividualClassify(ColText(rows[j].first), NoKpi)

\* the rows of the target year read as occupancy rows
OccupancyRows(rows, y) ==
    {i \in 1..Len(rows) :
        /\ ~Contains(BukkenBango, ColText(rows[i].first))
        /\ LabelInForce(rows, i) = "occupancy_pct"
        /\ Contains(YearLabel(y), ColText(rows[i].second))}

\* the cell of row i in the column of month m (1..12) holds a fraction in [0, 1]
FractionCell(rows, i, m) ==
    /\ m <= Len(rows[i].cells)
    /\ LET c == rows[i].cells[m]
       IN  /\ NotNa(c)
           /\ ~StrIn(c, {"0", "-", ""})
           /\ ~IsNone(ToFloat(c))
           /\ 0 <= Val(ToFloat(c))
           /\ Val(ToFloat(c)) <= 1000

\* the mean of fraction x 100 over the accepted cells of month m in the rows of
\* cand (the rows read as occupancy rows), in tenths of a
\* percent, rounded to one decimal; <<>> when there is none
MeanOccupancy(rows, cand, m) ==
    LET acc == {i \in cand : FractionCell(rows, i, m)}
        pct == [i \in acc |-> Val(ToFloat(rows[i].cells[m])) * 100]
    IN  IF acc = {} THEN None
        ELSE Num(RoundHalfEven(SumOver(pct, acc), 100 * Cardinality(acc)))

\* C9: the occupancy_pct the per-property extractor returns for a month is the
\* mean of (fraction x 100) over the accepted cells of that month in the rows of
\* the target year read as occupancy rows, rounded to one decimal.
C9_OccupancyIsMean ==
    (Returned /\ Era = "individual") =>
        LET cand == OccupancyRows(grid, target_year)
        IN  \A mk \in MonthKeySet :
                monthly_data[mk]["occupancy_pct"] = MeanOccupancy(grid, cand, MonthIdx(mk))

\* C9 witness: three occupancy rows with 0.60, 0.70 and 0.80 in January give 70.0
C9_Witness ==
    /\ Returned /\ Era = "individual"
    /\ Len(grid) = 3
    /\ {grid[i].cells[1] : i \in 1..3} = {FloatCell(600), FloatCell(700), FloatCell(800)}
    /\ \A i \in 1..3 : grid[i].first = LblOccupancy
    /\ monthly_data["01"]["occupancy_pct"] = Num(700)

\* C10: every scan of the per-property extractor starts with all sums and counts
\* at zero and no current KPI label, and what an invocation returns is what the
\* extractor computes from its own (grid, target_year) alone, whatever was
\* extracted before.
C10_ScanStartsFresh ==
    /\ (pc = "scan" /\ Era = "individual" /\ grid = <<>>) =>
          /\ current_kpi_type = NoKpi
          /\ current_hotel_count = 0
          /\ \A mk \in MonthKeySet :
                /\ \A k \in MetricKeys : monthly_data[mk][k] = Num(0)
                /\ \A k \in CountKeys : monthly_data[mk][k] = 0
    /\ (Returned /\ Era = "individual") =>
          monthly_data = extract_individual_hotels_aggregated(grid, target_year)

\* C10 witness: a later invocation that read data under an inherited label
C10_Witness ==
    /\ Returned /\ Era = "individual"
    /\ called_before
    /\ current_kpi_type # NoKpi
    /\ \E mk \in MonthKeySet : Present(mk, "occupancy_pct")

\* the label each row of the target year is read under (property markers apart)
YearRowLabels(rows, y) ==
    [i \in {j \in 1..Len(rows) :
                /\ ~Contains(BukkenBango, ColText(rows[j].first))
                /\ Contains(YearLabel(y), ColText(rows[j].second))}
        |-> LabelInForce(rows, i)]

\* the rows read under label k, given the labels of the rows of the target year
KpiRows(labels, k) == {i \in DOMAIN labels : labels[i] = k}

\* v (thousandths) passes the filter of metric k
InFilter(k, v) ==
    CASE k = "occupancy_pct" -> 0 <= v /\ v <= 1000
      [] k \in {"adr_jpy", "revpar_jpy"} -> 1000000 <= v /\ v <= 100000000
      [] OTHER -> v > 0

\* the rows among cand whose cell of month m (1..12) is accepted under k
AcceptedIn(rows, cand, m, k) ==
    {i \in cand :
        /\ m <= Len(rows[i].cells)
        /\ NotNa(rows[i].cells[m])
        /\ ~StrIn(rows[i].cells[m], {"0", "-", ""})
        /\ ~IsNone(ToFloat(rows[i].cells[m]))
        /\ InFilter(k, Val(ToFloat(rows[i].cells[m])))}

\* the sum, in thousandths, of the cells of month m in the rows of acc
CellSum(rows, acc, m) ==
    SumOver([i \in acc |-> Val(ToFloat(rows[i].cells[m]))], acc)

\* C11: in the per-property extractor, for every month and each of the four
\* metrics, the returned value is null exactly when no cell of that month was
\* accepted as a contribution for that metric.
C11_NullIffNoContribution ==
    (Returned /\ Era = "individual") =>
        LET labels == YearRowLabels(grid, target_year)
        IN  \A k \in MetricKeys :
                LET cand == KpiRows(labels, k)
                IN  \A mk \in MonthKeySet :
                        IsNone(monthly_data[mk][k])
                            <=> (AcceptedIn(grid, cand, MonthIdx(mk), k) = {})

\* C11 witness: an ADR row whose January cell is accepted and whose February
\* cell (500) is rejected, and no sales row at all
C11_Witness ==
    /\ Returned /\ Era = "individual"
    /\ \E i \in 1..Len(grid) :
          grid[i] = Row(LblAdrEn, YearCell(target_year), <<IntCell(5000), IntCell(500)>>)
    /\ monthly_data["01"]["adr_jpy"] = Num(5000)
    /\ monthly_data["02"]["adr_jpy"] = None
    /\ monthly_data["01"]["sales_total_mil_jpy"] = None

\* C12 as stated: sales_total_mil_jpy is the sum of the accepted sales cells, and
\* adr_jpy and revpar_jpy are the sum of the accepted cells divided by their number.
C12_PlainSumAndMean ==
    (Returned /\ Era = "individual") =>
        LET labels == YearRowLabels(grid, target_year)
        IN  \A k \in {"adr_jpy", "revpar_jpy", "sales_total_mil_jpy"} :
                LET cand == KpiRows(labels, k)
                IN  \A mk \in MonthKeySet :
                        LET acc == AcceptedIn(grid, cand, MonthIdx(mk), k)
                        IN  acc # {} =>
                              /\ ~IsNone(monthly_data[mk][k])
                              /\ IF k = "sales_total_mil_jpy"
                                 THEN Val(monthly_data[mk][k]) * 1000
                                          = CellSum(grid, acc, MonthIdx(mk))
                                 ELSE Val(monthly_data[mk][k]) * 1000 * Cardinality(acc)
                                          = CellSum(grid, acc, MonthIdx(mk))

\* C12 amended: sales_total_mil_jpy is the sum of the accepted (positive) sales
\* cells of the month truncated to an integer, and adr_jpy and revpar_jpy are the
\* sum of the accepted cells (those within [1000, 100000]) divided by their number
\* and truncated to an integer; cells outside the filter change neither.
C12_TruncatedSumAndMean ==
    (Returned /\ Era = "individual") =>
        LET labels == YearRowLabels(grid, target_year)
        IN  \A k \in {"adr_jpy", "revpar_jpy", "sales_total_mil_jpy"} :
                LET cand == KpiRows(labels, k)
                IN  \A mk \in MonthKeySet :
                        LET acc == AcceptedIn(grid, cand, MonthIdx(mk), k)
                        IN  acc # {} =>
                              monthly_data[mk][k] =
                                  IF k = "sales_total_mil_jpy"
                                  THEN Num(Trunc(CellSum(grid, acc, MonthIdx(mk)), 1000))
                                  ELSE Num(Trunc(CellSum(grid, acc, MonthIdx(mk)),
                                                 1000 * Cardinality(acc)))

\* C12 witness: two sales rows (12.5 and 12.5 in January, 0.4 and 0.4 in
\* February) and an ADR row with a cell outside the filter
C12_Witness ==
    /\ Returned /\ Era = "individual"
    /\ Len(grid) = 3
    /\ Cardinality({i \in 1..3 : grid[i].first = LblSales}) = 2
    /\ \E i \in 1..3 :
          grid[i] = Row(LblAdrEn, YearCell(target_year), <<IntCell(5000), IntCell(500)>>)
    /\ monthly_data["01"]["sales_total_mil_jpy"] = Num(25)
    /\ monthly_data["02"]["sales_total_mil_jpy"] = Num(0)
    /\ monthly_data["01"]["adr_jpy"] = Num(5000)
    /\ monthly_data["02"]["adr_jpy"] = None

Normalized == pc = "n_done"

\* the fraction (thousandths) the January cell of the row holds
Fraction == grid[1].cells[1].m

\* what was stored for the cell holding the fraction, and for its percent equivalent
StoredForFraction == monthly_data["01"]["occupancy_pct"]
StoredForPercent == monthly_data["02"]["occupancy_pct"]

\* C19 as stated: for every fraction f of [0, 1], the cell holding f and the cell
\* holding 100 * f are stored as the same occupancy_pct, 100 * f rounded to one
\* decimal.
C19_SameForEveryFraction ==
    Normalized =>
        /\ StoredForFraction = Num(Round1(100 * Fraction))
        /\ StoredForPercent = StoredForFraction

\* C19 amended: the cell holding f is stored as 100 * f rounded to one decimal;
\* the cell holding 100 * f is stored as the same value when 100 * f > 1 or
\* f = 0, and as 100 times its own value (10000 * f) when 0 < 100 * f <= 1: a
\* value > 1 is kept and a value <= 1 is multiplied by 100.
C19_SameAboveOnePercent ==
    Normalized =>
        /\ StoredForFraction = Num(Round1(100 * Fraction))
        /\ (100 * Fraction > 1000 \/ Fraction = 0) => StoredForPercent = StoredForFraction
        /\ (0 < Fraction /\ 100 * Fraction <= 1000) =>
              StoredForPercent = Num(Round1(100 * (100 * Fraction)))

\* C19 witness: 0.653 and 65.3 read by the legacy extractor are both stored as 65.3
C19_Witness ==
    /\ Normalized
    /\ Era = "legacy"
    /\ grid[1].cells = <<FloatCell(653), FloatCell(65300)>>
    /\ StoredForFraction = Num(653)
    /\ StoredForPercent = Num(653)

-----------------------------------------------------------------------------
(* Claims about one iteration of the row loops *)

\* a step of a row loop, and the row it reads
RowRead == pc = "scan" /\ Len(grid') = Len(grid) + 1
NewRow == grid'[Len(grid')]

\* the cell of row in the column of month m (1..12); missing columns read as NaN
CellOf(row, m) == IF m <= Len(row.cells) THEN row.cells[m] ELSE NaN

\* the cell is present, is none of the placeholders and float() converts it
Castable(c, placeholders) ==
    NotNa(c) /\ ~StrIn(c, placeholders) /\ ~IsNone(ToFloat(c))

\* the row is one the extractor of the era reads values from under label k
DataRowUnder(row, k) ==
    /\ k # NoKpi
    /\ CASE Era = "individual" ->
               /\ ~Contains(BukkenBango, ColText(row.first))
               /\ Contains(YearLabel(target_year), ColText(row.second))
         [] Era = "aggregated" -> Contains(YearLabel(target_year), ColText(row.second))
         [] OTHER ->
               \/ Contains(YearLabel(target_year), ColText(row.second))
               \/ Contains(HeiseiLabel(target_year - 1988), ColText(row.second))

\* the cell is acceptable for metric k in the era
Acceptable(c, k) ==
    CASE Era = "individual" ->
            Castable(c, {"0", "-", ""}) /\ InFilter(k, Val(ToFloat(c)))
      [] Era = "aggregated" ->
            /\ Castable(c, {"0", "-", ""})
            /\ IF k = "occupancy_pct"
               THEN Val(ToFloat(c)) >= 0 /\ Val(ToFloat(c)) <= 100000
               ELSE InFilter(k, Val(ToFloat(c)))
      [] OTHER -> Castable(c, {"0", "-"})

\* the label the row just read is read under
LabelOfNewRow ==
    CASE Era = "individual" -> current_kpi_type'
      [] Era = "aggregated" -> AggregatedClassify(ColText(NewRow.first))
      [] OTHER -> LegacyClassify(ColText(NewRow.first))

IsMarker(row) == Contains(BukkenBango, ColText(row.first))
OwnLabel(row) ==
    IF IsMarker(row) THEN NoKpi ELSE IndividualClassify(ColText(row.first), NoKpi)

\* the rows read so far end with a marker row followed by rows without KPI label
SinceMarker ==
    \E j \in 1..Len(grid) :
        /\ IsMarker(grid[j])
        /\ \A i \in (j + 1)..Len(grid) : OwnLabel(grid[i]) = NoKpi

\* the rows read so far end with a row labelled k followed by rows whose first
\* cell is empty
SinceLabel(k) ==
    \E j \in 1..Len(grid) :
        /\ OwnLabel(grid[j]) = k
        /\ \A i \in (j + 1)..Len(grid) : ~NotNa(grid[i].first)

\* the counts of metric k go up by one in exactly the months whose cell in the
\* row just read is acceptable under k, and no other metric changes
ContributesUnder(k) ==
    \A mk \in MonthKeySet :
        /\ monthly_data'[mk][CountKeyOf(k)] =
              monthly_data[mk][CountKeyOf(k)]
                + (IF Acceptable(CellOf(NewRow, MonthIdx(mk)), k) THEN 1 ELSE 0)
        /\ \A o \in DOMAIN monthly_data[mk] \ {k, CountKeyOf(k)} :
              monthly_data'[mk][o] = monthly_data[mk][o]

\* C22: in the per-property scan a property-marker row resets the label to
\* unknown and contributes nothing; from a marker row until the next KPI-labelled
\* row no row contributes, whatever its year cell; after a KPI-labelled row, rows
\* with an empty first cell contribute under that label.
C22_LabelPersistence ==
    [][(RowRead /\ Era = "individual") =>
         /\ IsMarker(NewRow) =>
               /\ current_kpi_type' = NoKpi
               /\ monthly_data' = monthly_data
               /\ current_hotel_count' = current_hotel_count + 1
         /\ (SinceMarker /\ OwnLabel(NewRow) = NoKpi) =>
               /\ current_kpi_type' = NoKpi
               /\ monthly_data' = monthly_data
         /\ \A k \in MetricKeys :
               (SinceLabel(k) /\ ~NotNa(NewRow.first)) =>
                  /\ current_kpi_type' = k
                  /\ IF Contains(YearLabel(target_year), ColText(NewRow.second))
                     THEN ContributesUnder(k)
                     ELSE monthly_data' = monthly_data]_vars

\* C22 witness: an ADR row, a marker row, then the row with an empty first cell:
\* only the ADR row has contributed, although the last row holds an ADR
C22_Witness ==
    /\ pc = "scan" /\ Era = "individual"
    /\ Len(grid) = 3
    /\ OwnLabel(grid[1]) = "adr_jpy"
    /\ IsMarker(grid[2])
    /\ ~NotNa(grid[3].first)
    /\ grid[3].cells[2] = IntCell(6000)
    /\ Contains(YearLabel(target_year), ColText(grid[3].second))
    /\ current_kpi_type = NoKpi
    /\ current_hotel_count = 1
    /\ monthly_data["01"]["adr_count"] = 1
    /\ monthly_data["02"]["adr_count"] = 0

\* the per-property scan is between two rows
Scanning == pc = "scan" /\ Era = "individual"

\* counts are the numbers of cells accepted so far and the sums (thousandths)
\* lie within the bounds of the filters
RunningTotalsBounded ==
    Scanning =>
        LET labels == YearRowLabels(grid, target_year)
        IN  \A k \in MetricKeys :
              LET cand == KpiRows(labels, k)
              IN  \A mk \in MonthKeySet :
                    LET n == monthly_data[mk][CountKeyOf(k)]
                        sum == Val(monthly_data[mk][k])
                    IN  /\ n = Cardinality(AcceptedIn(grid, cand, MonthIdx(mk), k))
                        /\ k = "occupancy_pct" => 0 <= sum /\ sum <= 100 * 1000 * n
                        /\ k \in {"adr_jpy", "revpar_jpy"} =>
                              /\ 1000 * 1000 * n <= sum
                              /\ sum <= 100000 * 1000 * n
                        /\ k = "sales_total_mil_jpy" => (n > 0 => sum > 0)
                        /\ n = 0 => sum = 0

\* reading a row lowers no count and no sum
RunningTotalsGrow ==
    (RowRead /\ Era = "individual") =>
        \A mk \in MonthKeySet, k \in MetricKeys :
            /\ monthly_data'[mk][CountKeyOf(k)] >= monthly_data[mk][CountKeyOf(k)]
            /\ Val(monthly_data'[mk][k]) >= Val(monthly_data[mk][k])

\* C28: at every point of the per-property scan, for every month, each count is
\* the number of contributions added to its sum so far, counts and sums never
\* decrease, and 0 <= occupancy_sum <= 100 * occupancy_count,
\* 1000 * count <= sum <= 100000 * count for ADR and RevPAR, and sales_sum > 0
\* whenever sales_count > 0.
C28_RunningTotals == []RunningTotalsBounded /\ [][RunningTotalsGrow]_vars

\* C28 witness: two occupancy rows and an ADR row have been read; January holds
\* two occupancy contributions, 60 and 0 percent, and one ADR
C28_Witness ==
    /\ Scanning
    /\ Len(grid) = 3
    /\ monthly_data["01"]["occupancy_count"] = 2
    /\ monthly_data["01"]["occupancy_pct"] = Num(60000)
    /\ monthly_data["01"]["adr_count"] = 1
    /\ monthly_data["01"]["adr_jpy"] = Num(5000000)
    /\ monthly_data["02"]["adr_count"] = 0
    /\ monthly_data["02"]["occupancy_count"] = 1

\* the metric each row read so far is read under by the extractor of the era
\* (NoKpi for a row that is not read)
MetricOfRows ==
    [i \in 1..Len(grid) |->
        LET k == IF Era = "aggregated" THEN AggregatedClassify(ColText(grid[i].first))
                 ELSE LegacyClassify(ColText(grid[i].first))
        IN  IF DataRowUnder(grid[i], k) THEN k ELSE NoKpi]

\* the rows read under metric k
RowsOfMetric(k) == KpiRows(MetricOfRows, k)

\* the value of the cell of month m in the last row of cand whose cell is
\* acceptable; <<>> when there is none
LastAccepted(cand, m, k) ==
    LET acc == {i \in cand : Acceptable(CellOf(grid[i], m), k)}
    IN  IF acc = {} THEN None
        ELSE LET last == CHOOSE i \in acc : \A j \in acc : j <= i
                 v == Val(ToFloat(CellOf(grid[last], m)))
             IN  IF k = "occupancy_pct"
                 THEN Num(Round1(IF v > 1000 THEN v ELSE v * 100))
                 ELSE Num(PyInt(v))

\* C29: in the legacy and the pre-aggregated extractor the value stored for a
\* month is the one of the last row of the metric and year whose cell for that
\* month was accepted; a later row whose cell is missing, a placeholder,
\* unparseable or rejected erases nothing, and values are never summed.
C29_LastAcceptedRowWins ==
    (pc \in {"scan", "done"} /\ Era \in {"legacy", "aggregated"}) =>
        LET metrics == MetricOfRows
        IN  \A k \in SevenKeys :
                LET cand == KpiRows(metrics, k)
                IN  \A mk \in MonthKeySet :
                        monthly_data[mk][k] = LastAccepted(cand, MonthIdx(mk), k)

\* C29 witness: two occupancy rows of a legacy year were read; the second holds
\* 0.0 in January and "-" in February, so January is its 0.0 and February
\* still the 65.3 of the first
C29_Witness ==
    /\ Returned /\ Era = "legacy"
    /\ Len(grid) = 2
    /\ grid[1].cells = <<FloatCell(600), FloatCell(653)>>
    /\ grid[2].cells = <<FloatCell(0), StrCell("-")>>
    /\ RowsOfMetric("occupancy_pct") = {1, 2}
    /\ monthly_data["01"]["occupancy_pct"] = Num(0)
    /\ monthly_data["02"]["occupancy_pct"] = Num(653)

\* labels of sales rows and the subtype each names
SubtypeLabels ==
    { <<<<"URIAGE", "GOKEI">>, "sales_total_mil_jpy">>,          \* 売上合計
      <<<<"SHUKUHAKU", "URIAGE">>, "sales_lodging_mil_jpy">>,    \* 宿泊売上
      <<<<"RYOIN", "URIAGE">>, "sales_fnb_mil_jpy">>,            \* 料飲売上
      <<<<"SONOTA", "URIAGE">>, "sales_other_mil_jpy">>,         \* その他売上
      <<<<"ADR", "URIAGE">>, "adr_jpy">>,
      <<<<"KADORITSU", "URIAGE", "GOKEI">>, "occupancy_pct">> }

\* the label names a lodging, F&B or other sales row
SubtypeRow(first_col) ==
    /\ Contains(Uriage, first_col)
    /\ ~Contains(Gokei, first_col)
    /\ \/ Contains(Shukuhaku, first_col)
       \/ Contains(Ryoin, first_col)
       \/ Contains(Sonota, first_col)

\* C23: the classifier maps a sales label to its subtype, the first matching
\* rule winning in the order occupancy, ADR, RevPAR, sales subtypes, and in
\* every extractor a lodging, F&B or other sales row never writes into
\* sales_total_mil_jpy.
C23_SubtypesKeptApart ==
    /\ \A l \in SubtypeLabels : JHRYAMLGenerator_indicator_type(l[1]) = l[2]
    /\ [][(RowRead /\ SubtypeRow(ColText(NewRow.first))) =>
            \A mk \in MonthKeySet :
                monthly_data'[mk]["sales_total_mil_jpy"]
                  = monthly_data[mk]["sales_total_mil_jpy"]]_vars

\* C30: in the per-property scan only rows with an empty first cell inherit the
\* label: a row whose first cell is non-empty, matches no KPI pattern and is no
\* property marker contributes nothing, even when its year cell matches.
C30_CaptionRowsContributeNothing ==
    [][(/\ RowRead /\ Era = "individual"
        /\ NotNa(NewRow.first)
        /\ ~IsMarker(NewRow)
        /\ OwnLabel(NewRow) = NoKpi) => monthly_data' = monthly_data]_vars

-----------------------------------------------------------------------------
(* Claims comparing the pre-aggregated and the per-property extractor *)

\* no marker rows, every row carries its own KPI label, and the target year has
\* at most one row per metric
OneRowPerMetric(rows, y) ==
    /\ \A i \in 1..Len(rows) : OwnLabel(rows[i]) # NoKpi
    /\ \A i, j \in 1..Len(rows) :
          (/\ i # j
           /\ OwnLabel(rows[i]) = OwnLabel(rows[j])
           /\ Contains(YearLabel(y), ColText(rows[i].second)))
             => ~Contains(YearLabel(y), ColText(rows[j].second))

\* C25: on a grid without marker rows in which each row carries its own KPI
\* label and the target year has at most one row per metric, the pre-aggregated
\* and the per-property extractor return the same occupancy_pct, adr_jpy,
\* revpar_jpy and sales_total_mil_jpy for every month.
C25_SameAcceptanceRules ==
    (Returned /\ Era \in {"individual", "aggregated"}
              /\ OneRowPerMetric(grid, target_year)) =>
        LET other == IF Era = "individual"
                     THEN extract_aggregated_data(grid, target_year)
                     ELSE extract_individual_hotels_aggregated(grid, target_year)
        IN  \A mk \in MonthKeySet, k \in MetricKeys :
                monthly_data[mk][k] = other[mk][k]

-----------------------------------------------------------------------------
(* Claims about the period matching of extract_legacy_format *)

PeriodDone == pc = "y_done"
LastRow == grid[Len(grid)]
EarlierRows == SubSeq(grid, 1, Len(grid) - 1)

\* the year cell contains the Gregorian or the Heisei label of the target year
NamesTargetYear(c) ==
    \/ Contains(Digits(target_year) \o <<"NEN">>, ColText(c))
    \/ Contains(<<"HEISEI">> \o Digits(target_year - 1988) \o <<"NEN">>, ColText(c))

\* C24: in the legacy extractor a classified row contributes its values if and
\* only if its year cell contains "{target_year}年" or "平成{target_year-1988}年";
\* a row whose year cell carries only another year's label, in either notation,
\* or only digits without the era marker leaves the output as it was.
C24_PeriodMatching ==
    PeriodDone =>
        LET k == LegacyClassify(ColText(LastRow.first))
            before == extract_legacy_format(EarlierRows, target_year)
        IN  /\ (k # NoKpi /\ NamesTargetYear(LastRow.second)) =>
                  /\ monthly_data["01"][k] = LegacyStore(k, LastRow.cells[1])
                  /\ monthly_data["02"][k] = LegacyStore(k, LastRow.cells[2])
                  /\ monthly_data # before
            /\ (k = NoKpi \/ ~NamesTargetYear(LastRow.second)) =>
                  monthly_data = before
            /\ LastRow.second \in OtherYearCells(target_year) =>
                  monthly_data = before

\* C24 witness: an ADR row of the Heisei label of 2016 has been read after an
\* occupancy row of 2016
C24_Witness ==
    /\ PeriodDone
    /\ target_year = 2016
    /\ Len(grid) = 2
    /\ LastRow.first = LblAdr
    /\ LastRow.second = TextCell(<<"HEISEI", "2", "8", "NEN">>)
    /\ monthly_data["02"]["adr_jpy"] = Num(7000)
    /\ monthly_data["02"]["occupancy_pct"] = Num(653)

-----------------------------------------------------------------------------
(* Claims about process_excel_file *)

ProcessReturned == pc = "p_done"
Scanned == ProcessReturned /\ file_state = "ok" /\ main_sheet # <<>>

\* the months of the scanned sheet with a non-null occupancy
OccupancyMonths == {mk \in MonthKeySet : ~IsNone(Extract(df, year)[mk]["occupancy_pct"])}

\* C5: once a sheet has been selected and scanned, process_excel_file returns
\* None exactly when no month has a non-null occupancy_pct; otherwise the
\* dataset's valid_months is the number of months with a non-null
\* occupancy_pct, which lies in 1..12.
C5_FailedIffNoOccupancy ==
    Scanned =>
        /\ (result = <<>>) <=> (OccupancyMonths = {})
        /\ result # <<>> =>
              /\ result.valid_months = Cardinality(OccupancyMonths)
              /\ 1 <= result.valid_months
              /\ result.valid_months <= 12

\* C5 witness: a dataset whose only occupancy month holds 0.0
C5_Witness ==
    /\ Scanned
    /\ result # <<>>
    /\ result.valid_months = 1
    /\ \E mk \in MonthKeySet : result.monthly_data[mk]["occupancy_pct"] = Num(0)

\* the keyword the claim gives for the year
ClaimedKeyword ==
    IF year >= 2024 THEN <<"HENDO", "2", "8", "HOTERU">>
    ELSE IF year = 2019 THEN <<"HENDO">>
    ELSE <<"HMJ">>

\* the positions of the sheets whose name contains the claimed keyword
KeywordSheets == {i \in 1..Len(sheet_names) : Contains(ClaimedKeyword, sheet_names[i])}

\* C7: the sheet selected is the first sheet, in workbook order, whose name
\* contains the keyword of the year's era, and a selected sheet is always one of
\* the workbook's sheets.
C7_EraRule ==
    (ProcessReturned /\ file_state = "ok") =>
        /\ KeywordSheets # {} =>
              \E i \in KeywordSheets :
                  /\ \A j \in KeywordSheets : i <= j
                  /\ main_sheet = sheet_names[i]
        /\ main_sheet # <<>> => \E i \in 1..Len(sheet_names) : sheet_names[i] = main_sheet

\* C7 witness: for 2021 the HMJ sheet is taken although a variable-rent sheet
\* comes first
C7_Witness ==
    /\ ProcessReturned
    /\ year = 2021
    /\ sheet_names = <<SheetHendo21, SheetHmj>>
    /\ main_sheet = SheetHmj

\* the positions of the sheets whose name does not contain "注意"
PlainSheets == {i \in 1..Len(sheet_names) : ~Contains(<<"CHUI">>, sheet_names[i])}

\* C8: when no sheet name contains the era keyword, the first sheet whose name
\* does not contain "注意" is selected, and none only when there is no such sheet.
C8_FallbackSheet ==
    (ProcessReturned /\ file_state = "ok" /\ KeywordSheets = {}) =>
        IF PlainSheets = {} THEN main_sheet = <<>>
        ELSE \E i \in PlainSheets :
                /\ \A j \in PlainSheets : i <= j
                /\ main_sheet = sheet_names[i]

EndToEndReturned == pc = "e_done"

\* the occupancy row of the sheet
OccupancyRow == df[Len(df)]

\* the value of column i of the occupancy row, in thousandths of a percent
CellValue(i) == Val(ToFloat(OccupancyRow.cells[i]))

\* C20 as stated: the monthly occupancy of months 01..12 is exactly the twelve
\* values of the row in column order, valid_months is 12 and occupancy_avg_pct is
\* their mean rounded to one decimal.
C20_ExactlyTheCells ==
    EndToEndReturned =>
        /\ result # <<>>
        /\ \A i \in 1..NumMonths :
              /\ result.monthly_data[MonthKeys[i]]["occupancy_pct"] # <<>>
              /\ Val(result.monthly_data[MonthKeys[i]]["occupancy_pct"]) * 100
                    = CellValue(i)
        /\ result.valid_months = NumMonths
        /\ result.annual_summary.occupancy_avg_pct =
              Num(RoundHalfEven(SumOver([i \in 1..NumMonths |-> CellValue(i)], 1..NumMonths),
                                100 * NumMonths))

\* C20 amended: the monthly occupancy of months 01..12 is the twelve values of
\* the row, each rounded to one decimal, in column order; valid_months is 12 and
\* occupancy_avg_pct is the mean of the twelve rounded values, rounded to one
\* decimal.
C20_TheCellsRounded ==
    EndToEndReturned =>
        /\ result # <<>>
        /\ \A i \in 1..NumMonths :
              result.monthly_data[MonthKeys[i]]["occupancy_pct"] = Num(Round1(CellValue(i)))
        /\ result.valid_months = NumMonths
        /\ result.annual_summary.occupancy_avg_pct =
              Num(RoundHalfEven(SumOver([i \in 1..NumMonths |-> Round1(CellValue(i))],
                                        1..NumMonths),
                                NumMonths))

\* C20 witness: the sheet of 2016 with 55, 60, 65, 70, 75, 80, 85, 80, 75, 70,
\* 65, 60 gives those twelve values and the average 70.0
C20_Witness ==
    /\ EndToEndReturned
    /\ year = 2016
    /\ Len(df) = 1
    /\ df[1].cells = [i \in 1..NumMonths |-> IntCell(ExampleOccupancy[i])]
    /\ \A i \in 1..NumMonths :
          result.monthly_data[MonthKeys[i]]["occupancy_pct"] = Num(10 * ExampleOccupancy[i])
    /\ result.valid_months = 12
    /\ result.annual_summary.occupancy_avg_pct = Num(700)

-----------------------------------------------------------------------------
(* Claims about the annual summaries *)

AnnualDone == pc \in {"a_fixed", "a_comprehensive", "a_fetcher"}

\* the months of monthly_data that hold a value under k
MonthsWith(k) == {mk \in MonthKeySet : ~IsNone(monthly_data[mk][k])}

\* the months with a non-null occupancy
GatedMonths == MonthsWith("occupancy_pct")

\* the sum of the values of k over the months of S
ValueSum(S, k) == SumOver([mk \in S |-> Val(monthly_data[mk][k])], S)

\* the mean of the values of k over the months of S rounded to the nearest unit
\* of k (a tenth of a percent, a yen); null when S is empty
RoundedMean(S, k) ==
    IF S = {} THEN None ELSE Num(RoundHalfEven(ValueSum(S, k), Cardinality(S)))

\* the summary the implementation that was called gives for md
AnnualOf(md) ==
    CASE pc = "a_fixed" -> calculate_annual_summary(md)
      [] pc = "a_comprehensive" -> JHRYAMLGenerator_calculate_annual_summary(md)
      [] OTHER -> JHRDataFetcher_calculate_annual_summary(md)

\* C13: occupancy_avg_pct of FixedJHRDataExtractor and of JHRYAMLGenerator is the
\* mean, rounded to one decimal, of the occupancy of exactly the months whose
\* occupancy_pct is non-null, months with occupancy 0 included.
C13_OccupancyMeanOfNonNull ==
    pc \in {"a_fixed", "a_comprehensive"} =>
        annual_summary.occupancy_avg_pct = RoundedMean(GatedMonths, "occupancy_pct")

\* C14: sales_total_annual_mil_jpy of FixedJHRDataExtractor and of
\* JHRYAMLGenerator is the sum of all non-null monthly sales_total_mil_jpy of the
\* year, and null when there is none.
C14_SalesSumOfNonNull ==
    pc \in {"a_fixed", "a_comprehensive"} =>
        annual_summary.sales_total_annual_mil_jpy =
            IF MonthsWith("sales_total_mil_jpy") = {} THEN None
            ELSE Num(ValueSum(MonthsWith("sales_total_mil_jpy"), "sales_total_mil_jpy"))

\* C15: a month whose occupancy_pct is null contributes to none of the four
\* annual fields: the summary is the summary of the year with those months
\* emptied, and replacing the ADR, RevPAR and sales of one such month (by no
\* value, by 6003, 4001 and 12) leaves the summary as it is.
C15_OccupancyGate ==
    AnnualDone =>
        /\ annual_summary =
              AnnualOf([mk \in MonthKeySet |->
                          IF mk \in GatedMonths THEN monthly_data[mk] ELSE SevenNone])
        /\ \A mk \in MonthKeySet \ GatedMonths :
              MonthIdx(mk) <= MaxFilledMonths =>
                  \A r \in {AnnualRecord(None, None, None),
                            AnnualRecord(None, Num(6003), Num(12))} :
                      AnnualOf([monthly_data EXCEPT ![mk] = r]) = annual_summary

\* C15 witness: January has ADR 5000 and sales 12 but no occupancy; the summary
\* is that of February alone
C15_Witness ==
    /\ pc = "a_fixed"
    /\ monthly_data["01"]["occupancy_pct"] = None
    /\ monthly_data["01"]["adr_jpy"] = Num(5000)
    /\ monthly_data["01"]["sales_total_mil_jpy"] = Num(12)
    /\ monthly_data["02"]["occupancy_pct"] = Num(654)
    /\ monthly_data["02"]["adr_jpy"] = Num(6003)
    /\ monthly_data["02"]["sales_total_mil_jpy"] = None
    /\ annual_summary = [occupancy_avg_pct |-> Num(654), adr_avg_jpy |-> Num(6003),
                         revpar_avg_jpy |-> None, sales_total_annual_mil_jpy |-> None]

\* the monthly key an annual field is computed from
FieldSource ==
    [occupancy_avg_pct |-> "occupancy_pct", adr_avg_jpy |-> "adr_jpy",
     revpar_avg_jpy |-> "revpar_jpy", sales_total_annual_mil_jpy |-> "sales_total_mil_jpy"]

\* C16: without a month of non-null occupancy the summary has its four fields
\* null; and a field is null (never 0) whenever no valid month carries its metric.
C16_NullWhenNothingToSummarise ==
    AnnualDone =>
        /\ DOMAIN annual_summary = DOMAIN FieldSource
        /\ GatedMonths = {} => \A f \in DOMAIN FieldSource : annual_summary[f] = None
        /\ \A f \in DOMAIN FieldSource :
              (GatedMonths \cap MonthsWith(FieldSource[f]) = {}) => annual_summary[f] = None

\* C16 witness: a valid month without sales, the sales of the year being in a
\* month without occupancy
C16_Witness ==
    /\ pc = "a_fixed"
    /\ GatedMonths = {"02"}
    /\ monthly_data["01"]["sales_total_mil_jpy"] = Num(12)
    /\ monthly_data["02"]["sales_total_mil_jpy"] = None
    /\ annual_summary.occupancy_avg_pct # None
    /\ annual_summary.sales_total_annual_mil_jpy = None

\* C17: adr_avg_jpy and revpar_avg_jpy are the mean over the valid months in
\* which that metric is present, rounded to the nearest integer yen.
C17_MeanOverMonthsWithMetric ==
    AnnualDone =>
        /\ annual_summary.adr_avg_jpy =
              RoundedMean(GatedMonths \cap MonthsWith("adr_jpy"), "adr_jpy")
        /\ annual_summary.revpar_avg_jpy =
              RoundedMean(GatedMonths \cap MonthsWith("revpar_jpy"), "revpar_jpy")

-----------------------------------------------------------------------------
(* Claims about generate_yaml *)

DocumentReturned == pc = "returned"
DatasetKeys == {yaml_data.datasets[i].key : i \in 1..Len(yaml_data.datasets)}

\* the document returned holds exactly the years that succeeded
DocumentComplete ==
    DocumentReturned =>
        /\ yaml_data # <<>>
        /\ {processed[i] : i \in 1..Len(processed)} = Years
        /\ DatasetKeys = {Digits(y) : y \in succeeded}
        /\ Len(yaml_data.datasets) = Cardinality(succeeded)
        /\ yaml_data.coverage_period.total_years = Cardinality(succeeded)
        /\ succeeded = {} =>
              /\ yaml_data.datasets = <<>>
              /\ yaml_data.coverage_period.total_years = 0

\* C6: whatever years fail, generate_yaml completes and returns a document: every
\* year is processed, the datasets are exactly the years that succeeded and
\* total_years is their number (an empty datasets collection and 0 when no year
\* succeeded).
C6_DocumentAlwaysProduced == []DocumentComplete /\ <>DocumentReturned

\* C6 witness: years failed before, between and after the two that succeeded
C6_Witness ==
    /\ DocumentReturned
    /\ succeeded = {2016, 2024}
    /\ result = <<>>
    /\ file_state = "corrupt"
    /\ Len(yaml_data.datasets) = 2

\* the year a dataset is keyed by
KeyYear(i) == CHOOSE y \in Years : Digits(y) = yaml_data.datasets[i].key

\* the years looked at so far are 2015, 2016, ... without gap or repetition
ProcessedInOrder ==
    /\ Len(processed) <= EndYear - FirstYear
    /\ \A i \in 1..Len(processed) : processed[i] = FirstYear + i - 1

\* the datasets of the returned document are keyed by ascending years
DatasetsAscending ==
    DocumentReturned =>
        /\ Len(processed) = EndYear - FirstYear
        /\ \A i \in 1..Len(yaml_data.datasets) :
              \E y \in succeeded : Digits(y) = yaml_data.datasets[i].key
        /\ \A i, j \in 1..Len(yaml_data.datasets) :
              i < j => KeyYear(i) < KeyYear(j)

\* a step looks at one year, the next one, and has its outcome before the
\* following step starts
OneYearPerStep ==
    processed' # processed =>
        /\ pc = "loop"
        /\ processed' = Append(processed, FirstYear + Len(processed))
        /\ year' = FirstYear + Len(processed)
        /\ (result' # <<>>) <=> (year' \in succeeded')
        /\ succeeded \subseteq succeeded'
        /\ succeeded' \subseteq succeeded \cup {year'}

\* C26: the assembler processes the years 2015..2025 one after the other in
\* ascending order, each exactly once, a year being finished (success or
\* failure) before the next begins; the datasets emitted are keyed by year in
\* ascending order and no year appears twice.
C26_YearsInOrder ==
    /\ []ProcessedInOrder
    /\ []DatasetsAscending
    /\ [][OneYearPerStep]_vars

\* C26 witness: all eleven years were looked at and three of them succeeded
C26_Witness ==
    /\ DocumentReturned
    /\ Len(processed) = 11
    /\ processed[1] = 2015 /\ processed[11] = 2025
    /\ succeeded = {2015, 2019, 2025}
    /\ Len(yaml_data.datasets) = 3
    /\ yaml_data.datasets[1].key = <<"2", "0", "1", "5">>
    /\ yaml_data.datasets[3].key = <<"2", "0", "2", "5">>

\* the sum of the valid_months of the first n datasets
RECURSIVE ValidMonthsOfFirst(_)
ValidMonthsOfFirst(n) ==
    IF n = 0 THEN 0
    ELSE ValidMonthsOfFirst(n - 1) + yaml_data.datasets[n].valid_months

\* C27: in every emitted document total_years is the number of datasets;
\* start_year and end_year are the least and the greatest dataset year when a
\* year succeeded and 2015 and 2025 when none did; start_year <= end_year;
\* total_valid_months is the sum of the datasets' valid_months and lies between
\* total_years and 12 * total_years.
C27_MetadataConsistent ==
    DocumentReturned =>
        LET sets == yaml_data.datasets
            cp == yaml_data.coverage_period
            total == yaml_data.metadata.total_valid_months
        IN  /\ cp.total_years = Len(sets)
            /\ Len(sets) > 0 =>
                  /\ \E i \in 1..Len(sets) : cp.start_year = KeyYear(i)
                  /\ \E i \in 1..Len(sets) : cp.end_year = KeyYear(i)
                  /\ \A i \in 1..Len(sets) :
                        cp.start_year <= KeyYear(i) /\ KeyYear(i) <= cp.end_year
            /\ Len(sets) = 0 => cp.start_year = 2015 /\ cp.end_year = 2025
            /\ cp.start_year <= cp.end_year
            /\ total = ValidMonthsOfFirst(Len(sets))
            /\ cp.total_years <= total
            /\ total <= 12 * cp.total_years

\* C27 witness: a per-property year with one valid month and a legacy year with
\* two were emitted
C27_Witness ==
    /\ DocumentReturned
    /\ succeeded = {2016, 2021}
    /\ yaml_data.coverage_period =
          [start_year |-> 2016, end_year |-> 2021, total_years |-> 2]
    /\ yaml_data.datasets[1].valid_months = 2
    /\ yaml_data.datasets[2].valid_months = 1
    /\ yaml_data.metadata.total_valid_months = 3

====
